---- MODULE Spec2Model ----
(***************************************************************************)
(* rosia-cli: the scan -> size -> clean -> trash pipeline.                  *)
(*                                                                         *)
(* The module holds three state machines over one set of variables:        *)
(*   SpecTrash  internal/trash (Move, Restore, GetMetadata, List) driven   *)
(*              by concurrent workers, as CleanAsync drives it;            *)
(*   SpecClean  internal/cleaner Cleaner.Clean over a target list;         *)
(*   SpecScan   internal/scanner Scanner.Scan with the sizing pass of      *)
(*              internal/sizecalc CalculateTargets.                         *)
(***************************************************************************)
EXTENDS Bags, Integers, Sequences, FiniteSets, TLC

\* ------------------------------------------------------------------------
\* Bounds
\* ------------------------------------------------------------------------
\* Clock seconds 0..MaxClock (the id timestamp has one-second granularity).
MaxClock == 1
\* Number of environment failures (failing syscalls) injected in one run.
MaxFaults == 1
\* Number of calls of Move and Restore made in one run.
MaxCalls == 3
\* Length of the target list handed to Clean.
MaxTargets == 3
\* Number of root paths handed to Scan.
MaxRoots == 2
\* Number of calls of MatchProfile made in one run.
MaxMatchCalls == 3
\* Number of changes made to the directories MatchProfile is asked about.
MaxFsChanges == 2
\* Plugins in the registry.
MaxPlugins == 2
\* Entries of the profiles directory handed to LoadAll.
MaxDefs == 2
\* Calls of the plugin registry made in one run.
MaxRegCalls == 3

Workers == {"w1", "w2"}

\* ------------------------------------------------------------------------
\* The filesystem objects the cleaner and the trash work on
\* ------------------------------------------------------------------------
TargetIds == {"t1", "t2", "t3"}

TargetPath ==
  [t \in TargetIds |->
     CASE t = "t1" -> <<"a", "nm">>
       [] t = "t2" -> <<"b", "nm">>
       [] OTHER    -> <<"a", "ds">>]

TargetKind == [t \in TargetIds |-> IF t = "t3" THEN "file" ELSE "dir"]

TargetFiles ==
  [t \in TargetIds |-> IF t = "t1" THEN {"t1/x", "t1/y"} ELSE {}]

TargetSize ==
  [t \in TargetIds |-> CASE t = "t1" -> 100 [] t = "t2" -> 200 [] OTHER -> 300]

TargetProfile == [t \in TargetIds |-> "Node.js"]

Paths == {TargetPath[t] : t \in TargetIds}

\* filepath.Base
Base(path) == path[Len(path)]

Range(seq) == {seq[i] : i \in 1 .. Len(seq)}

Basenames == {Base(p) : p \in Paths}

\* types.Target as the scanner hands it to the cleaner
Target(t) ==
  [Path |-> TargetPath[t], Size |-> TargetSize[t],
   ProfileName |-> TargetProfile[t], IsDirectory |-> TargetKind[t] = "dir"]

\* what lies at a path: nothing, or a file / directory tree
NoEntry == [kind |-> "none", owner |-> "none", files |-> {}, bytes |-> 0]

Content(t) ==
  [kind |-> TargetKind[t], owner |-> t, files |-> TargetFiles[t],
   bytes |-> TargetSize[t]]

\* something a user or a build writes at a path after the target was moved
NewContent == [kind |-> "file", owner |-> "new", files |-> {}, bytes |-> 3]

Contents == {Content(t) : t \in TargetIds} \cup {NewContent}

Exists(d, p) == d[p].kind # "none"

\* ------------------------------------------------------------------------
\* Trash layout: one item directory per id, holding metadata.json + content
\* ------------------------------------------------------------------------
\* id = timestamp + "_" + basename; the timestamp has a fixed width, so the
\* id string is determined by, and determines, the pair.
MakeId(clk, path) == <<clk, Base(path)>>

Ids == (0 .. MaxClock) \X Basenames

NoMeta ==
  [state |-> "none", ID |-> <<0, "">>, OriginalPath |-> <<>>, Size |-> 0,
   DeletedAt |-> 0, ProfileName |-> ""]

\* a metadata.json that was created but not written completely
CorruptMeta == [NoMeta EXCEPT !.state = "corrupt"]

Metadata(id, target, clk) ==
  [state |-> "ok", ID |-> id, OriginalPath |-> target.Path,
   Size |-> target.Size, DeletedAt |-> clk, ProfileName |-> target.ProfileName]

NoDir == [exists |-> FALSE, meta |-> NoMeta, content |-> NoEntry]

EmptyDir == [exists |-> TRUE, meta |-> NoMeta, content |-> NoEntry]

\* os.MkdirAll(itemDir): creates the directory unless it is already there
MkdirAll(tr, id) == IF tr[id].exists THEN tr ELSE [tr EXCEPT ![id] = EmptyDir]

\* os.RemoveAll(itemDir)
RemoveAll(tr, id) == [tr EXCEPT ![id] = NoDir]

\* rename(2): whether renaming src onto dst succeeds
RenameOk(src, dst) ==
  /\ src.kind # "none"
  /\ \/ dst.kind = "none"
     \/ src.kind = "file" /\ dst.kind = "file"
     \/ src.kind = "dir" /\ dst.kind = "dir" /\ dst.files = {}

\* an error value: nil, or the kind of error the code builds
Nil == "nil"

FaultKinds ==
  {"none", "mkdir", "write_open", "write_partial", "rename", "remove"}

\* ------------------------------------------------------------------------
\* trash.System.Move, statement by statement
\* ------------------------------------------------------------------------
\* itemDir := Join(trashDir, id); os.MkdirAll(itemDir)
MoveMkdir(tr, id, fault) ==
  IF fault = "mkdir"
    THEN [err |-> "failed to create trash item directory", trash |-> tr]
    ELSE [err |-> Nil, trash |-> MkdirAll(tr, id)]

\* os.WriteFile(metadataPath, ...): open(O_CREATE|O_TRUNC), write, close.
\* It fails when the item directory is gone or the open fails (no file is
\* touched), or when the write fails after the file was created/truncated.
\* Move returns the error without removing anything.
MoveWriteMetadata(tr, id, target, clk, fault) ==
  IF ~tr[id].exists \/ fault = "write_open"
    THEN [err |-> "failed to write metadata", trash |-> tr]
  ELSE IF fault = "write_partial"
    THEN [err |-> "failed to write metadata",
          trash |-> [tr EXCEPT ![id].meta = CorruptMeta]]
  ELSE [err |-> Nil,
        trash |-> [tr EXCEPT ![id].meta = Metadata(id, target, clk)]]

\* os.Rename(target.Path, contentPath); on failure os.RemoveAll(itemDir)
MoveRenameContent(d, tr, id, path, fault) ==
  IF tr[id].exists /\ RenameOk(d[path], tr[id].content) /\ fault # "rename"
    THEN [err |-> Nil,
          disk |-> [d EXCEPT ![path] = NoEntry],
          trash |-> [tr EXCEPT ![id].content = d[path]]]
    ELSE [err |-> "failed to move target to trash",
          disk |-> d,
          trash |-> RemoveAll(tr, id)]

\* Move as one uninterrupted call (the synchronous callers)
Move(d, tr, target, clk, fault) ==
  LET id == MakeId(clk, target.Path)
      s1 == MoveMkdir(tr, id, fault)
      s2 == MoveWriteMetadata(s1.trash, id, target, clk, fault)
      s3 == MoveRenameContent(d, s2.trash, id, target.Path, fault)
  IN  IF s1.err # Nil THEN [id |-> id, err |-> s1.err, disk |-> d, trash |-> s1.trash]
      ELSE IF s2.err # Nil THEN [id |-> id, err |-> s2.err, disk |-> d, trash |-> s2.trash]
      ELSE [id |-> id, err |-> s3.err, disk |-> s3.disk, trash |-> s3.trash]

\* ------------------------------------------------------------------------
\* trash.System.GetMetadata, List, Restore
\* ------------------------------------------------------------------------
GetMetadata(tr, id) ==
  IF ~tr[id].exists \/ tr[id].meta.state = "none"
    THEN [err |-> "path not found", meta |-> NoMeta]
  ELSE IF tr[id].meta.state = "corrupt"
    THEN [err |-> "failed to parse metadata", meta |-> NoMeta]
  ELSE [err |-> Nil, meta |-> tr[id].meta]

\* the ids of the item directories List reports (unreadable ones skipped)
List(tr) == {id \in Ids : tr[id].exists /\ GetMetadata(tr, id).err = Nil}

\* Restore without the final os.RemoveAll(itemDir)
RestoreLeavesItem(d, tr, id, fault) ==
  LET md == GetMetadata(tr, id)
      orig == md.meta.OriginalPath
  IN  IF md.err # Nil
        THEN [err |-> "failed to get metadata", disk |-> d, trash |-> tr]
      ELSE IF Exists(d, orig)
        THEN [err |-> "path already exists", disk |-> d, trash |-> tr]
      ELSE IF ~RenameOk(tr[id].content, d[orig]) \/ fault = "rename"
        THEN [err |-> "failed to restore item", disk |-> d, trash |-> tr]
      ELSE [err |-> Nil,
            disk |-> [d EXCEPT ![orig] = tr[id].content],
            trash |-> [tr EXCEPT ![id].content = NoEntry]]

\* Restore without the os.Stat conflict check
RestoreOverwrites(d, tr, id, fault) ==
  LET md == GetMetadata(tr, id)
      orig == md.meta.OriginalPath
  IN  IF md.err # Nil
        THEN [err |-> "failed to get metadata", disk |-> d, trash |-> tr]
      ELSE IF ~RenameOk(tr[id].content, d[orig]) \/ fault = "rename"
        THEN [err |-> "failed to restore item", disk |-> d, trash |-> tr]
      ELSE [err |-> Nil,
            disk |-> [d EXCEPT ![orig] = tr[id].content],
            trash |-> RemoveAll(tr, id)]

Restore(d, tr, id, fault) ==
  LET md == GetMetadata(tr, id)
      orig == md.meta.OriginalPath
  IN  IF md.err # Nil
        THEN [err |-> "failed to get metadata", disk |-> d, trash |-> tr]
      ELSE IF Exists(d, orig)
        THEN [err |-> "path already exists", disk |-> d, trash |-> tr]
      ELSE IF ~RenameOk(tr[id].content, d[orig]) \/ fault = "rename"
        THEN [err |-> "failed to restore item", disk |-> d, trash |-> tr]
      ELSE [err |-> Nil,
            disk |-> [d EXCEPT ![orig] = tr[id].content],
            trash |-> IF fault = "remove"
                        THEN [tr EXCEPT ![id].content = NoEntry]
                        ELSE RemoveAll(tr, id)]

\* trash.System.Clean(retentionPeriod) at clock reading clk: every listed
\* item whose DeletedAt is Before(clk - ret) has the directory named by its
\* metadata's ID removed; a removal that fails is collected, the loop goes on
TrashClean(tr, clk, ret, failing) ==
  LET expired == {id \in List(tr) : tr[id].meta.DeletedAt < clk - ret}
      removed == {tr[id].meta.ID : id \in expired \ failing}
  IN  [err |-> IF expired \cap failing # {}
                 THEN "failed to clean some items" ELSE Nil,
       trash |-> [id \in Ids |-> IF id \in removed THEN NoDir ELSE tr[id]]]

\* ------------------------------------------------------------------------
\* cleaner.Cleaner
\* ------------------------------------------------------------------------
\* filepath.Dir
Dir(path) == SubSeq(path, 1, Len(path) - 1)

Parents == {Dir(p) : p \in Paths}

\* canDelete: the path must exist and its parent directory be writable
\* (ro: the parent directories without the owner write bit)
canDelete(d, ro, path) ==
  IF ~Exists(d, path) THEN "path does not exist"
  ELSE IF Dir(path) \in ro
    THEN "permission denied: parent directory is not writable"
  ELSE Nil

EmptyReport ==
  [TotalSize |-> 0, FilesDeleted |-> 0, Errors |-> <<>>, TrashedItems |-> <<>>]

CleanError(t, err) == [Target |-> t, Error |-> err]

\* the loop body giving up the whole batch when the trash move fails
CleanTargetAborts(d, tr, ro, rep, t, trashOn, clk, fault) ==
  LET pre == canDelete(d, ro, TargetPath[t])
      mv == Move(d, tr, Target(t), clk, fault)
      counted == [rep EXCEPT !.TotalSize = @ + Target(t).Size,
                             !.FilesDeleted = @ + 1]
  IN  IF pre # Nil
        THEN [next |-> "continue", disk |-> d, trash |-> tr,
              report |-> [rep EXCEPT !.Errors = Append(@, CleanError(t, pre))]]
      ELSE IF trashOn
        THEN IF mv.err # Nil
               THEN [next |-> "failed to move to trash", disk |-> mv.disk,
                     trash |-> mv.trash, report |-> rep]
               ELSE [next |-> "continue", disk |-> mv.disk, trash |-> mv.trash,
                     report |-> [counted EXCEPT
                                   !.TrashedItems = Append(@, mv.id)]]
      ELSE IF fault = "remove"
        THEN [next |-> "continue", disk |-> d, trash |-> tr,
              report |-> [rep EXCEPT
                            !.Errors = Append(@, CleanError(t, "failed to delete"))]]
      ELSE [next |-> "continue", disk |-> [d EXCEPT ![TargetPath[t]] = NoEntry],
            trash |-> tr, report |-> counted]

\* Clean, lines 72-113: the loop body for one target. next is what the loop
\* does afterwards: every branch of the code goes on with the next target.
CleanTarget(d, tr, ro, rep, t, trashOn, clk, fault) ==
  LET pre == canDelete(d, ro, TargetPath[t])
      mv == Move(d, tr, Target(t), clk, fault)
      counted == [rep EXCEPT !.TotalSize = @ + Target(t).Size,
                             !.FilesDeleted = @ + 1]
  IN  IF pre # Nil
        THEN [next |-> "continue", disk |-> d, trash |-> tr,
              report |-> [rep EXCEPT !.Errors = Append(@, CleanError(t, pre))]]
      ELSE IF trashOn
        THEN IF mv.err # Nil
               THEN [next |-> "continue", disk |-> mv.disk, trash |-> mv.trash,
                     report |-> [rep EXCEPT
                                   !.Errors = Append(@, CleanError(t,
                                                "failed to move to trash"))]]
               ELSE [next |-> "continue", disk |-> mv.disk, trash |-> mv.trash,
                     report |-> [counted EXCEPT
                                   !.TrashedItems = Append(@, mv.id)]]
      ELSE IF fault = "remove"
        THEN [next |-> "continue", disk |-> d, trash |-> tr,
              report |-> [rep EXCEPT
                            !.Errors = Append(@, CleanError(t, "failed to delete"))]]
      ELSE [next |-> "continue", disk |-> [d EXCEPT ![TargetPath[t]] = NoEntry],
            trash |-> tr, report |-> counted]

\* Clean, lines 52-125, as one uninterrupted call whose context is never
\* cancelled and whose syscalls all succeed: the report it returns
RECURSIVE CleanAll(_, _, _, _, _, _, _)
CleanAll(d, tr, ro, rep, ts, trashOn, clk) ==
  IF ts = <<>> THEN rep
  ELSE LET r == CleanTarget(d, tr, ro, rep, Head(ts), trashOn, clk, "none")
       IN  CleanAll(r.disk, r.trash, ro, r.report, Tail(ts), trashOn, clk)

\* CleanProgress
Progress(i, n, t, err) == [Current |-> i, Total |-> n, Target |-> t, Error |-> err]

\* a worker that reports nothing for a job it found cancelled
CancelledJobSilent(i, n, t) == <<>>

\* CleanAsync, lines 224-235: the context is done when a worker takes a job,
\* and the worker reports the job with the context's error
CancelledJob(i, n, t) == <<Progress(i, n, t, "context canceled")>>

\* CleanAsync, lines 238-275: a worker cleans the target of its job; err is
\* the Error of the progress event it reports
CleanJob(d, tr, ro, t, trashOn, clk, fault) ==
  LET pre == canDelete(d, ro, TargetPath[t])
      mv == Move(d, tr, Target(t), clk, fault)
  IN  IF pre # Nil
        THEN [err |-> pre, disk |-> d, trash |-> tr]
      ELSE IF trashOn
        THEN [err |-> IF mv.err # Nil THEN "failed to move to trash" ELSE Nil,
              disk |-> mv.disk, trash |-> mv.trash]
      ELSE IF fault = "remove"
        THEN [err |-> "failed to delete", disk |-> d, trash |-> tr]
      ELSE [err |-> Nil, disk |-> [d EXCEPT ![TargetPath[t]] = NoEntry],
            trash |-> tr]

\* GenerateReportFromProgress, lines 303-325: the fold over the events
RECURSIVE FoldProgress(_, _)
FoldProgress(rep, evs) ==
  IF evs = <<>> THEN rep
  ELSE LET e == Head(evs)
       IN  FoldProgress(
             IF e.Error # Nil
               THEN [rep EXCEPT !.Errors = Append(@, CleanError(e.Target, e.Error))]
               ELSE [rep EXCEPT !.TotalSize = @ + Target(e.Target).Size,
                                !.FilesDeleted = @ + 1],
             Tail(evs))

GenerateReportFromProgress(evs) == FoldProgress(EmptyReport, evs)

\* ------------------------------------------------------------------------
\* The directory tree the scanner walks
\* ------------------------------------------------------------------------
\* A path is the sequence of its components.  app is a Node.js project whose
\* node_modules (nm) holds a nested package lib with its own nm, and which
\* holds a Python environment ve of its own (with rq); ds is a project whose
\* own directory name is a cleanup pattern; .h is hidden.
FileNodes ==
  { <<"w", ".h", "pj">>, <<"w", "app", "pj">>, <<"w", "app", "nm", "f">>,
    <<"w", "app", "ve", "rq">>,
    <<"w", "app", "nm", "lib", "pj">>, <<"w", "app", "nm", "lib", "nm", "f">>,
    <<"w", "ds", "pj">>, <<"w", "ds", "nm", "f">> }

DirNodes ==
  { <<"w">>, <<"w", ".h">>, <<"w", ".h", "nm">>, <<"w", "app">>,
    <<"w", "app", "nm">>, <<"w", "app", "nm", "lib">>,
    <<"w", "app", "nm", "lib", "nm">>, <<"w", "app", "ve">>, <<"w", "ds">>,
    <<"w", "ds", "nm">> }

Nodes == FileNodes \cup DirNodes

\* the size of each regular file
FileSize(p) == IF Base(p) = "pj" THEN 2 ELSE 1000

\* the characters of each name
Chars ==
  [n \in {"w", ".h", "app", "nm", "lib", "ds", "pj", "f", "ve", "rq"} |->
     CASE n = ".h"  -> <<".", "h">>
       [] n = "app" -> <<"a", "p", "p">>
       [] n = "nm"  -> <<"n", "m">>
       [] n = "lib" -> <<"l", "i", "b">>
       [] n = "ds"  -> <<"d", "s">>
       [] n = "pj"  -> <<"p", "j">>
       [] n = "ve"  -> <<"v", "e">>
       [] n = "rq"  -> <<"r", "q">>
       [] OTHER     -> <<n>>]

\* the names in lexical order, the order in which WalkDir reads a directory
SortedNames == <<".h", "app", "ds", "f", "lib", "nm", "pj", "rq", "ve", "w">>

IsPrefix(a, b) == Len(a) <= Len(b) /\ SubSeq(b, 1, Len(a)) = a

\* b lies strictly beneath a
Beneath(a, b) == Len(a) < Len(b) /\ IsPrefix(a, b)

RECURSIVE ChildrenFrom(_, _)
ChildrenFrom(dir, names) ==
  IF names = <<>> THEN <<>>
  ELSE (IF Append(dir, Head(names)) \in Nodes
          THEN <<Append(dir, Head(names))>> ELSE <<>>)
       \o ChildrenFrom(dir, Tail(names))

\* os.ReadDir(dir), sorted by name
Children(dir) == ChildrenFrom(dir, SortedNames)

\* ------------------------------------------------------------------------
\* profiles.Loader: MatchProfile, MatchesPattern
\* ------------------------------------------------------------------------
\* filepath.Match on one path component: * any run of characters, ? one
RECURSIVE GlobMatch(_, _)
GlobMatch(pat, str) ==
  IF pat = <<>> THEN str = <<>>
  ELSE IF Head(pat) = "*"
    THEN GlobMatch(Tail(pat), str)
         \/ (str # <<>> /\ GlobMatch(pat, Tail(str)))
  ELSE /\ str # <<>>
       /\ (Head(pat) = "?" \/ Head(pat) = Head(str))
       /\ GlobMatch(Tail(pat), Tail(str))

\* the loaded profiles, in load order
Profiles ==
  << [Name |-> "Legacy", Patterns |-> << <<"l", "i", "b">> >>,
      Detect |-> << <<"p", "j">> >>, Enabled |-> FALSE],
     [Name |-> "Node.js", Patterns |-> << <<"n", "m">>, <<"d", "*">> >>,
      Detect |-> << <<"p", "j">> >>, Enabled |-> TRUE],
     [Name |-> "Python", Patterns |-> << <<"v", "e">> >>,
      Detect |-> << <<"r", "q">> >>, Enabled |-> TRUE] >>

NoProfile == 0

hasGlobChars(pat) == \E i \in 1 .. Len(pat) : pat[i] \in {"*", "?", "[", "]"}

\* a filesystem is a function from paths to "dir", "file" or "none"
KindAt(fsys, p) == IF p \in DOMAIN fsys THEN fsys[p] ELSE "none"

\* the tree the scanner walks, as a filesystem
StaticFS == [n \in Nodes |-> IF n \in DirNodes THEN "dir" ELSE "file"]

\* the names of the entries of a directory
EntryNames(fsys, dir) ==
  {Base(n) : n \in {m \in DOMAIN fsys :
                      fsys[m] # "none" /\ Len(m) = Len(dir) + 1 /\ IsPrefix(dir, m)}}

\* matchesDetectPatterns: a detect entry is present in the directory, as a
\* name (os.Stat) or, when it has wildcards, as a glob (filepath.Glob)
matchesDetectPatternsIn(fsys, dir, detect) ==
  \E i \in 1 .. Len(detect) :
    \E name \in EntryNames(fsys, dir) :
      \/ Chars[name] = detect[i]
      \/ hasGlobChars(detect[i]) /\ GlobMatch(detect[i], Chars[name])

matchesDetectPatterns(dir, detect) ==
  matchesDetectPatternsIn(StaticFS, dir, detect)

\* the loop of MatchProfile over l.profiles from index i on: a disabled
\* profile is skipped, the first profile with a detect hit is returned (as
\* its index), NoProfile when the loop runs out
RECURSIVE MatchProfileLoop(_, _, _, _)
MatchProfileLoop(profs, fsys, dir, i) ==
  IF i > Len(profs) THEN NoProfile
  ELSE IF ~profs[i].Enabled THEN MatchProfileLoop(profs, fsys, dir, i + 1)
  ELSE IF matchesDetectPatternsIn(fsys, dir, profs[i].Detect) THEN i
  ELSE MatchProfileLoop(profs, fsys, dir, i + 1)

\* MatchProfile without the cache, on the scanner's tree
MatchProfileFS(dir) ==
  IF dir \notin DirNodes THEN NoProfile
  ELSE MatchProfileLoop(Profiles, StaticFS, dir, 1)

\* the filesystem accesses of one evaluation that returned r: the os.Stat of
\* the directory and at least one per enabled profile examined
StatCount(profs, r) ==
  1 + Cardinality({i \in 1 .. (IF r = NoProfile THEN Len(profs) ELSE r) :
                     profs[i].Enabled})

\* MatchesPattern(name, profile)
MatchesPattern(name, prof) ==
  \E i \in 1 .. Len(Profiles[prof].Patterns) :
    \/ GlobMatch(Profiles[prof].Patterns[i], Chars[name])
    \/ Chars[name] = Profiles[prof].Patterns[i]

\* MatchProfile that never looks into the match cache
MatchProfileUncached(profs, fsys, cache, dir) ==
  IF KindAt(fsys, dir) = "none"
    THEN [prof |-> NoProfile, err |-> "stat", cache |-> cache, stats |-> 1]
  ELSE IF KindAt(fsys, dir) # "dir"
    THEN [prof |-> NoProfile, err |-> Nil, cache |-> cache, stats |-> 1]
  ELSE LET r == MatchProfileLoop(profs, fsys, dir, 1)
       IN  [prof |-> r, err |-> Nil, cache |-> [cache EXCEPT ![dir] = r],
            stats |-> StatCount(profs, r)]

\* MatchProfile that does not skip disabled profiles
MatchProfileAnyEnabled(profs, fsys, cache, dir) ==
  LET all == [i \in 1 .. Len(profs) |-> [profs[i] EXCEPT !.Enabled = TRUE]]
      r == MatchProfileLoop(all, fsys, dir, 1)
  IN  IF cache[dir] # -1
        THEN [prof |-> cache[dir], err |-> Nil, cache |-> cache, stats |-> 0]
      ELSE IF KindAt(fsys, dir) = "none"
        THEN [prof |-> NoProfile, err |-> "stat", cache |-> cache, stats |-> 1]
      ELSE IF KindAt(fsys, dir) # "dir"
        THEN [prof |-> NoProfile, err |-> Nil, cache |-> cache, stats |-> 1]
      ELSE [prof |-> r, err |-> Nil, cache |-> [cache EXCEPT ![dir] = r],
            stats |-> StatCount(all, r)]

\* MatchProfile(dirPath) of a loader with the profiles profs, on fsys, with
\* the match cache: cache[d] is -1 while d has no entry, else the cached
\* result.  A hit answers from the cache without touching the filesystem; a
\* miss stats the path, returns without caching when it is missing or not a
\* directory, and else runs the loop and stores its result (a match or not).
MatchProfileIn(profs, fsys, cache, dir) ==
  IF cache[dir] # -1
    THEN [prof |-> cache[dir], err |-> Nil, cache |-> cache, stats |-> 0]
  ELSE IF KindAt(fsys, dir) = "none"
    THEN [prof |-> NoProfile, err |-> "stat", cache |-> cache, stats |-> 1]
  ELSE IF KindAt(fsys, dir) # "dir"
    THEN [prof |-> NoProfile, err |-> Nil, cache |-> cache, stats |-> 1]
  ELSE LET r == MatchProfileLoop(profs, fsys, dir, 1)
       IN  [prof |-> r, err |-> Nil, cache |-> [cache EXCEPT ![dir] = r],
            stats |-> StatCount(profs, r)]

\* MatchProfile on the scanner's tree with the loaded profiles
MatchProfile(cache, dir) == MatchProfileIn(Profiles, StaticFS, cache, dir)

\* ------------------------------------------------------------------------
\* scanner.Scanner: scanPath and its WalkDir callback
\* ------------------------------------------------------------------------
\* an error is the chain of its wrapped messages, nil the empty chain
NoErr == <<>>

Canceled == <<"context canceled">>

Wrap(msg, err) == <<msg>> \o err

PathChars(path) == [i \in 1 .. Len(path) |-> Chars[path[i]]]

\* createTarget (the size is set by the sizing pass)
createTarget(path, prof) ==
  [Path |-> path, ProfileName |-> Profiles[prof].Name, Size |-> 0,
   IsDirectory |-> path \in DirNodes]

isHidden(name) == Len(Chars[name]) > 0 /\ Chars[name][1] = "."

\* shouldIgnore: an entry equals the path, is a prefix of it at a separator,
\* or glob-matches it (no wildcard matches a separator)
shouldIgnore(path, ignorePaths) ==
  \E k \in 1 .. Len(ignorePaths) :
    LET ig == ignorePaths[k]
        pc == PathChars(path)
    IN  \/ pc = ig
        \/ Len(ig) < Len(pc) /\ SubSeq(pc, 1, Len(ig)) = ig
        \/ Len(ig) = Len(pc) /\ \A i \in 1 .. Len(ig) : GlobMatch(ig[i], pc[i])

\* scanPath, lines 201-212: the root itself is a target when the profile
\* matched for it lists its basename
RootMatch(cache, root) ==
  LET m == MatchProfile(cache, root)
  IN  [cache |-> m.cache,
       emit |-> IF m.prof # NoProfile /\ MatchesPattern(Base(root), m.prof)
                  THEN <<createTarget(root, m.prof)>> ELSE <<>>]

\* the callback without the depth check of lines 235-243
VisitAnyDepth(cache, root, opts, path) ==
  LET isDir == path \in DirNodes
      skip == IF isDir THEN "SkipDir" ELSE "nil"
      m1 == MatchProfile(cache, Dir(path))
      m2 == IF m1.prof = NoProfile THEN MatchProfile(m1.cache, path) ELSE m1
  IN  IF path = root
        THEN [ret |-> "nil", emit |-> <<>>, cache |-> cache]
      ELSE IF ~opts.IncludeHidden /\ isHidden(Base(path))
        THEN [ret |-> skip, emit |-> <<>>, cache |-> cache]
      ELSE IF shouldIgnore(path, opts.IgnorePaths)
        THEN [ret |-> skip, emit |-> <<>>, cache |-> cache]
      ELSE IF ~isDir
        THEN [ret |-> "nil", emit |-> <<>>, cache |-> cache]
      ELSE IF m2.prof # NoProfile /\ MatchesPattern(Base(path), m2.prof)
        THEN [ret |-> "SkipDir", emit |-> <<createTarget(path, m2.prof)>>,
              cache |-> m2.cache]
      ELSE [ret |-> "nil", emit |-> <<>>, cache |-> m2.cache]

\* scanPath, lines 215-296: the WalkDir callback on one entry, the context
\* not being done: what it returns to the walk, the target it appends
Visit(cache, root, opts, path) ==
  LET isDir == path \in DirNodes
      skip == IF isDir THEN "SkipDir" ELSE "nil"
      m1 == MatchProfile(cache, Dir(path))
      m2 == IF m1.prof = NoProfile THEN MatchProfile(m1.cache, path) ELSE m1
  IN  IF path = root
        THEN [ret |-> "nil", emit |-> <<>>, cache |-> cache]
      ELSE IF opts.MaxDepth > 0 /\ Len(path) - Len(root) > opts.MaxDepth
        THEN [ret |-> skip, emit |-> <<>>, cache |-> cache]
      ELSE IF ~opts.IncludeHidden /\ isHidden(Base(path))
        THEN [ret |-> skip, emit |-> <<>>, cache |-> cache]
      ELSE IF shouldIgnore(path, opts.IgnorePaths)
        THEN [ret |-> skip, emit |-> <<>>, cache |-> cache]
      ELSE IF ~isDir
        THEN [ret |-> "nil", emit |-> <<>>, cache |-> cache]
      ELSE IF m2.prof # NoProfile /\ MatchesPattern(Base(path), m2.prof)
        THEN [ret |-> "SkipDir", emit |-> <<createTarget(path, m2.prof)>>,
              cache |-> m2.cache]
      ELSE [ret |-> "nil", emit |-> <<>>, cache |-> m2.cache]

\* a walk that reads a directory whatever the callback returned
WalkRestDescends(stack, ret) ==
  (IF Head(stack) \in DirNodes THEN Children(Head(stack)) ELSE <<>>)
    \o Tail(stack)

\* WalkDir: the entries still to visit after the callback returned ret on
\* the first of them; a directory not skipped is read, in name order
WalkRest(stack, ret) ==
  (IF Head(stack) \in DirNodes /\ ret = "nil"
     THEN Children(Head(stack)) ELSE <<>>) \o Tail(stack)

\* scanPath run to its end without cancellation: the targets it returns and
\* the match cache it leaves
RECURSIVE scanPathWalk(_, _, _, _, _)
scanPathWalk(cache, root, opts, stack, acc) ==
  IF stack = <<>> THEN [targets |-> acc, cache |-> cache]
  ELSE LET v == Visit(cache, root, opts, Head(stack))
       IN  scanPathWalk(v.cache, root, opts, WalkRest(stack, v.ret),
                        acc \o v.emit)

scanPath(cache, root, opts) ==
  LET rm == RootMatch(cache, root)
  IN  scanPathWalk(rm.cache, root, opts, <<root>>, rm.emit)

\* Scan, lines 93-112, without cancellation: the targets of all roots
RECURSIVE ScanRoots(_, _, _)
ScanRoots(cache, roots, opts) ==
  IF roots = <<>> THEN <<>>
  ELSE LET r == scanPath(cache, Head(roots), opts)
       IN  r.targets \o ScanRoots(r.cache, Tail(roots), opts)

\* ------------------------------------------------------------------------
\* scanner.Scanner: ScanAsync, the worker pool and scanPathAsync (async.go)
\* ------------------------------------------------------------------------
\* scanPathAsync, lines 121-131: the root itself
RootMatchAsync(cache, root) ==
  LET m == MatchProfile(cache, root)
  IN  [cache |-> m.cache,
       emit |-> IF m.prof # NoProfile /\ MatchesPattern(Base(root), m.prof)
                  THEN <<createTarget(root, m.prof)>> ELSE <<>>]

\* the callback of scanPathAsync without the SkipDir of a matched directory
VisitAsyncDescends(cache, root, opts, path) ==
  LET v == Visit(cache, root, opts, path)
  IN  IF v.emit # <<>> THEN [v EXCEPT !.ret = "nil"] ELSE v

\* scanPathAsync, lines 134-214: the WalkDir callback on one entry, the
\* context not being done
VisitAsync(cache, root, opts, path) ==
  LET isDir == path \in DirNodes
      skip == IF isDir THEN "SkipDir" ELSE "nil"
      m1 == MatchProfile(cache, Dir(path))
      m2 == IF m1.prof = NoProfile THEN MatchProfile(m1.cache, path) ELSE m1
  IN  IF path = root
        THEN [ret |-> "nil", emit |-> <<>>, cache |-> cache]
      ELSE IF opts.MaxDepth > 0 /\ Len(path) - Len(root) > opts.MaxDepth
        THEN [ret |-> skip, emit |-> <<>>, cache |-> cache]
      ELSE IF ~opts.IncludeHidden /\ isHidden(Base(path))
        THEN [ret |-> skip, emit |-> <<>>, cache |-> cache]
      ELSE IF shouldIgnore(path, opts.IgnorePaths)
        THEN [ret |-> skip, emit |-> <<>>, cache |-> cache]
      ELSE IF ~isDir
        THEN [ret |-> "nil", emit |-> <<>>, cache |-> cache]
      ELSE IF m2.prof # NoProfile /\ MatchesPattern(Base(path), m2.prof)
        THEN [ret |-> "SkipDir", emit |-> <<createTarget(path, m2.prof)>>,
              cache |-> m2.cache]
      ELSE [ret |-> "nil", emit |-> <<>>, cache |-> m2.cache]

\* ------------------------------------------------------------------------
\* sizecalc.SizeCalc
\* ------------------------------------------------------------------------
RECURSIVE SumFiles(_)
\* a plugin whose Scan stops the scan of the plugins after it
scanPluginsStopsAtFailure(ps) ==
  IF \E i \in 1 .. Len(ps) : ps[i].Err # NoErr
    THEN [targets |-> <<>>, err |-> <<"plugin scan failed">>]
    ELSE [targets |-> <<>>, err |-> NoErr]

\* scanPlugins, lines 170-194: the targets of the plugins whose Scan
\* succeeded, in registry order; a failing plugin is skipped
RECURSIVE scanPlugins(_)
scanPlugins(ps) ==
  IF ps = <<>> THEN [targets |-> <<>>, err |-> NoErr]
  ELSE LET rest == scanPlugins(Tail(ps))
       IN  IF Head(ps).Err # NoErr THEN rest
           ELSE [targets |-> Head(ps).Targets \o rest.targets, err |-> rest.err]

\* Scan, lines 114-124: the plugin targets are appended unless scanPlugins
\* returned an error
WithPluginTargets(targets, pl) ==
  IF pl.err # NoErr THEN targets ELSE targets \o pl.targets

SumFiles(fs) ==
  IF fs = {} THEN 0
  ELSE LET f == CHOOSE x \in fs : TRUE IN FileSize(f) + SumFiles(fs \ {f})

\* Calculate(path): Lstat fails on a path that is gone; a regular file has
\* its own size, a directory the sum of the regular files beneath it
Calculate(gonePaths, path) ==
  IF \E g \in gonePaths : IsPrefix(g, path)
    THEN [size |-> 0, err |-> <<"failed to stat path">>]
  ELSE IF path \in FileNodes THEN [size |-> FileSize(path), err |-> NoErr]
  ELSE [size |-> SumFiles({f \in FileNodes :
                            Beneath(path, f)
                            /\ ~\E g \in gonePaths : IsPrefix(g, f)}),
        err |-> NoErr]

\* CalculateTargets, lines 146-163: what it returns once the workers are
\* done: the context error when the submit loop saw the context done (stop),
\* an aggregate error when nerr of the n paths failed, else nil
CalcResult(n, nerr, stop) ==
  IF stop # NoErr THEN stop
  ELSE IF nerr > 0
    THEN Wrap("encountered errors during size calculation",
              <<"failed to calculate size", "failed to stat path">>)
  ELSE NoErr

\* Scan, lines 129-140: the error Scan returns for the result of the sizing
ScanSizeResult(err) ==
  IF err # NoErr THEN Wrap("failed to calculate sizes", err) ELSE NoErr

\* ------------------------------------------------------------------------
\* State
\* ------------------------------------------------------------------------
VARIABLES
  now,      \* the wall clock, in seconds
  disk,     \* what lies at each original path
  trash,    \* the item directories of the trash directory, by id
  faults,   \* environment failures injected so far
  calls,    \* calls of Move and Restore made so far
  wpc,      \* per worker: where it is inside Move
  wtgt,     \* per worker: the target it is moving
  wid,      \* per worker: the id Move computed
  lastOp,   \* history: the last call of the sequential caller that returned
  life,     \* history: per id, how far the item of that id has come
  ctargets,   \* Clean: the target list it was called with
  useTrash,   \* Clean: opts.UseTrash
  roParents,  \* the parent directories that are not writable
  cancelled,  \* whether the context of the running call is cancelled
  cpc,        \* Clean: "idle", "loop" or "done"
  cidx,       \* Clean: index of the next target of the loop
  report,     \* Clean: the CleanReport under construction
  cerr,       \* Clean: the error it returned
  cmissing,   \* history: the targets whose path was missing at the call
  sroots,     \* Scan: the root paths it was called with
  sopts,      \* Scan: the ScanOptions
  spc,        \* Scan: "idle", "roots", "walk", "submit", "wait" or "done"
  sri,        \* Scan: index of the next root
  wstack,     \* scanPath: the entries WalkDir has still to visit
  ptargets,   \* scanPath: the targets of the root being walked
  stargets,   \* Scan: the targets of the finished roots
  matchCache, \* profiles.Loader: the match cache
  gone,       \* target paths removed externally since their discovery
  jobs,       \* CalculateTargets: the indexes in the jobs channel
  subi,       \* CalculateTargets: the next index to submit
  results,    \* CalculateTargets: the result slice
  nerrors,    \* CalculateTargets: the number of collected errors
  swork,      \* CalculateTargets: per worker, whether it still runs
  stop,       \* CalculateTargets: the context error the submit loop saw
  sret,       \* Scan: the targets it returned
  serr,       \* Scan: the error it returned
  cancelAt,   \* history: Scan's position when the context was cancelled
  lprofiles,  \* profiles.Loader: l.profiles, in load order
  fsys,       \* the directories MatchProfile is asked about, and their entries
  mcalls,     \* calls of MatchProfile made so far
  fschanges,  \* changes made to fsys so far
  seen,       \* history: per path, what MatchProfile returned since ClearCache
  lastMatch,  \* history: the last call of MatchProfile that returned
  ajobs,      \* ScanAsync: the roots in pool.jobs
  asub,       \* ScanAsync: index of the next root to submit
  aclosed,    \* ScanAsync: whether pool.jobs is closed
  apc,        \* per scan worker: "idle", "walk", "send" or "exit"
  aroot,      \* per scan worker: the root it scans
  astack,     \* per scan worker: the entries WalkDir has still to visit
  afound,     \* per scan worker: the targets scanPathAsync collected
  tchan,      \* ScanAsync: the targets in targetChan
  tclosed,    \* ScanAsync: whether targetChan is closed
  received,   \* the consumer: the bag of targets received from targetChan
  qjobs,      \* CleanAsync: the jobs (indexes) in the jobs channel
  qsub,       \* CleanAsync: index of the next job to send
  qclosed,    \* CleanAsync: whether the jobs channel is closed
  qwork,      \* per clean worker: the job it holds, or 0
  qresults,   \* CleanAsync: the events in the results channel
  qfwd,       \* CleanAsync: the number of events forwarded
  pchan,      \* CleanAsync: the events in progressCh
  pclosed,    \* CleanAsync: whether progressCh is closed
  pevents,    \* the consumer: the events received from progressCh, in order
  entry,      \* the command that runs: "clean", "ui" or "none"
  noTrash,    \* the clean command: the flag --no-trash
  cmdpc,      \* the command: "idle", "start", "cleaning" or "done"
  plugins,    \* Scanner: the plugins of the registry (none: no registry)
  calcFS,     \* SizeCalc: the tree, with symbolic links, Calculate works on
  calcPath,   \* SizeCalc: the path Calculate is called with
  calcRes,    \* SizeCalc: what Calculate returned, once it has
  loadDir,    \* LoadAll: the entries of the profiles directory, by name
  loadRes,    \* LoadAll: what it returned, once it has
  registry,   \* plugins.Registry: r.plugins, per name the plugin or none
  regPend,    \* per caller: the call of the registry it has begun, if any
  regCalls,   \* calls of the registry begun so far
  regLast,    \* history: per name, the last successful Register/Unregister
  regLog,     \* history: the last call that returned, with r.plugins before
  sheld,      \* CalculateTargets: per worker, the index it is sizing, or 0
  cbegun,     \* Clean: the loop is past the context check of target cidx
  acoord,     \* ScanAsync: where the coordinating goroutine is
  echan,      \* ScanAsync: the errors in errorChan
  eclosed,    \* ScanAsync: errorChan is closed
  tscreen,    \* TUIModel.screen
  tn,         \* TUIModel: len(m.targets)
  tselected,  \* TUIModel: the indices i with m.selected[i] true
  tcursor,    \* TUIModel.cursor
  tquit,      \* the program was told to quit (tea.Quit)
  trun,       \* the command in flight: scan, clean, or the message pending
  tlast,      \* history: the message Update handled last, or the step taken
  tcleaned    \* history: the selections Cleaner.Clean was called with

coreVars == <<now, disk, trash, faults, calls>>
workerVars == <<wpc, wtgt, wid>>
histVars == <<lastOp, life>>
cleanVars ==
  <<ctargets, useTrash, roParents, cancelled, cpc, cidx, report, cerr, cmissing>>
scanVars ==
  <<sroots, sopts, spc, sri, wstack, ptargets, stargets, matchCache, gone,
    jobs, subi, results, nerrors, swork, stop, sret, serr, cancelAt>>
loaderVars == <<lprofiles, fsys, mcalls, fschanges, seen, lastMatch>>
asyncVars ==
  <<ajobs, asub, aclosed, apc, aroot, astack, afound, tchan, tclosed, received>>
cleanAsyncVars ==
  <<qjobs, qsub, qclosed, qwork, qresults, qfwd, pchan, pclosed, pevents>>
cmdVars == <<entry, noTrash, cmdpc>>
regVars == <<registry, regPend, regCalls, regLast, regLog>>
coordVars == <<acoord, echan, eclosed>>
tuiVars ==
  <<tscreen, tn, tselected, tcursor, tquit, trun, tlast, tcleaned>>
moreVars == <<sheld, cbegun, coordVars, tuiVars>>
libVars == <<calcFS, calcPath, calcRes, loadDir, loadRes, regVars, moreVars>>
extVars == <<loaderVars, asyncVars, cleanAsyncVars, cmdVars, plugins, libVars>>
vars == <<coreVars, workerVars, histVars, cleanVars, scanVars, extVars>>

\* op/id/err: the call and what it returned; target/before: the target of
\* the Move and what lay at its path when Move was called; after: whether a
\* Restore was the next call after the successful Move that returned its id
NoOp ==
  [op |-> "none", target |-> "none", id |-> <<0, "">>, err |-> Nil,
   before |-> NoEntry, after |-> FALSE, ret |-> 0]

Returned(op, t, id, err, before, after) ==
  [op |-> op, target |-> t, id |-> id, err |-> err, before |-> before,
   after |-> after, ret |-> 0]

\* the return of Clean(retentionPeriod)
PurgeReturned(ret, err) == [NoOp EXCEPT !.op = "purge", !.err = err, !.ret = ret]

InitCore ==
  /\ now = 0
  /\ disk = [p \in Paths |-> Content(CHOOSE t \in TargetIds : TargetPath[t] = p)]
  /\ trash = [id \in Ids |-> NoDir]
  /\ faults = 0
  /\ calls = 0

InitWorkers ==
  /\ wpc = [w \in Workers |-> "idle"]
  /\ wtgt = [w \in Workers |-> "none"]
  /\ wid = [w \in Workers |-> <<0, "">>]

InitHist ==
  /\ lastOp = NoOp
  /\ life = [id \in Ids |-> "none"]

\* what lastMatch holds before the first call
NoMatch ==
  [dir |-> <<>>, prof |-> NoProfile, err |-> Nil, stats |-> 0, before |-> -1]

\* a loader on the scanner's tree that was not asked yet
InitLoaderIdle ==
  /\ lprofiles = Profiles
  /\ fsys = StaticFS
  /\ mcalls = 0
  /\ fschanges = 0
  /\ seen = [d \in DirNodes |-> -1]
  /\ lastMatch = NoMatch

\* the goroutines of the worker pool (opts.Concurrency of them)
ScanWorkers == {"a1", "a2"}

\* no ScanAsync is running
InitAsyncIdle ==
  /\ ajobs = <<>>
  /\ asub = 1
  /\ aclosed = FALSE
  /\ apc = [w \in ScanWorkers |-> "idle"]
  /\ aroot = [w \in ScanWorkers |-> <<>>]
  /\ astack = [w \in ScanWorkers |-> <<>>]
  /\ afound = [w \in ScanWorkers |-> <<>>]
  /\ tchan = <<>>
  /\ tclosed = FALSE
  /\ received = EmptyBag

CleanWorkers == {"c1", "c2"}

\* no CleanAsync is running
InitCleanAsyncIdle ==
  /\ qjobs = <<>>
  /\ qsub = 1
  /\ qclosed = FALSE
  /\ qwork = [w \in CleanWorkers |-> 0]
  /\ qresults = <<>>
  /\ qfwd = 0
  /\ pchan = <<>>
  /\ pclosed = FALSE
  /\ pevents = <<>>

\* no command runs
InitCmdIdle ==
  /\ entry = "none"
  /\ noTrash = FALSE
  /\ cmdpc = "idle"

\* no plugin registry is in use
InitRegIdle ==
  /\ registry = <<>>
  /\ regPend = <<>>
  /\ regCalls = 0
  /\ regLast = <<>>
  /\ regLog = <<>>

SizeWorkers == {"s1", "s2"}

\* no sizing worker holds an index
InitMoreIdle ==
  /\ sheld = [w \in SizeWorkers |-> 0]
  /\ cbegun = FALSE
  /\ acoord = "submit"
  /\ echan = <<>>
  /\ eclosed = FALSE
  /\ tscreen = "Scanning"
  /\ tn = 0
  /\ tselected = {}
  /\ tcursor = 0
  /\ tquit = FALSE
  /\ trun = "none"
  /\ tlast = "new"
  /\ tcleaned = <<>>

\* no call into the size calculator or the profile loader is modelled
InitLibIdle ==
  /\ calcFS = <<>>
  /\ calcPath = <<>>
  /\ calcRes = <<>>
  /\ loadDir = <<>>
  /\ loadRes = <<>>
  /\ InitRegIdle
  /\ InitMoreIdle

InitExtIdle ==
  /\ InitLoaderIdle /\ InitAsyncIdle /\ InitCleanAsyncIdle /\ InitCmdIdle
  /\ plugins = <<>>
  /\ InitLibIdle

\* no Clean is running
InitCleanIdle ==
  /\ ctargets = <<>>
  /\ useTrash = TRUE
  /\ roParents = {}
  /\ cancelled = FALSE
  /\ cpc = "idle"
  /\ cidx = 1
  /\ report = EmptyReport
  /\ cerr = Nil
  /\ cmissing = {}

\* the parts of the Scan state that do not depend on the call
InitScanRest ==
  /\ sri = 1
  /\ wstack = <<>>
  /\ ptargets = <<>>
  /\ stargets = <<>>
  /\ matchCache = [d \in DirNodes |-> -1]
  /\ gone = {}
  /\ jobs = <<>>
  /\ subi = 1
  /\ results = <<>>
  /\ nerrors = 0
  /\ swork = [w \in SizeWorkers |-> TRUE]
  /\ stop = NoErr
  /\ sret = <<>>
  /\ serr = NoErr
  /\ cancelAt = "never"

\* no Scan is running
InitScanIdle ==
  /\ sroots = <<>>
  /\ sopts = [MaxDepth |-> 0, IncludeHidden |-> FALSE, IgnorePaths |-> <<>>]
  /\ spc = "idle"
  /\ InitScanRest

\* a call is made while the budget lasts
Call ==
  /\ calls < MaxCalls
  /\ calls' = calls + 1

\* a failure may be injected while the budget lasts
Inject(fault) ==
  /\ fault # "none" => faults < MaxFaults
  /\ faults' = IF fault = "none" THEN faults ELSE faults + 1

\* ------------------------------------------------------------------------
\* Environment
\* ------------------------------------------------------------------------
\* a second passes
Tick ==
  /\ now < MaxClock
  /\ now' = now + 1
  /\ UNCHANGED <<extVars, disk, trash, faults, calls, workerVars, histVars, cleanVars, scanVars>>

\* somebody writes a new file where a moved target used to be
Recreate(p) ==
  /\ ~Exists(disk, p)
  /\ disk' = [disk EXCEPT ![p] = NewContent]
  /\ UNCHANGED <<extVars, now, trash, faults, calls, workerVars, histVars, cleanVars, scanVars>>

\* ------------------------------------------------------------------------
\* SpecTrash: workers of one process inside Move, and Restore
\* ------------------------------------------------------------------------
\* Move, lines 70-79: the id from the clock and the basename, MkdirAll
WMoveBegin(w, t, fault) ==
  /\ wpc[w] = "idle"
  /\ \A v \in Workers : wpc[v] # "idle" => wtgt[v] # t
  /\ fault \in {"none", "mkdir"}
  /\ Call
  /\ Inject(fault)
  /\ LET id == MakeId(now, TargetPath[t])
         r == MoveMkdir(trash, id, fault)
     IN  /\ trash' = r.trash
         /\ IF r.err = Nil
              THEN /\ wpc' = [wpc EXCEPT ![w] = "metadata"]
                   /\ wtgt' = [wtgt EXCEPT ![w] = t]
                   /\ wid' = [wid EXCEPT ![w] = id]
              ELSE UNCHANGED workerVars
  /\ UNCHANGED <<extVars, now, disk, histVars, cleanVars, scanVars>>

\* Move, lines 81-99: the metadata record and metadata.json
WMoveMetadata(w, fault) ==
  /\ wpc[w] = "metadata"
  /\ fault \in {"none", "write_open", "write_partial"}
  /\ Inject(fault)
  /\ LET r == MoveWriteMetadata(trash, wid[w], Target(wtgt[w]), now, fault)
     IN  /\ trash' = r.trash
         /\ wpc' = [wpc EXCEPT ![w] = IF r.err = Nil THEN "rename" ELSE "idle"]
  /\ UNCHANGED <<extVars, now, calls, disk, wtgt, wid, histVars, cleanVars, scanVars>>

\* Move, lines 101-109: the rename, and the rollback when it fails
WMoveRename(w, fault) ==
  /\ wpc[w] = "rename"
  /\ fault \in {"none", "rename"}
  /\ Inject(fault)
  /\ LET t == wtgt[w]
         r == MoveRenameContent(disk, trash, wid[w], TargetPath[t], fault)
     IN  /\ disk' = r.disk
         /\ trash' = r.trash
  /\ wpc' = [wpc EXCEPT ![w] = "idle"]
  /\ UNCHANGED <<extVars, now, calls, wtgt, wid, histVars, cleanVars, scanVars>>

\* a Restore(id) that succeeds while the workers run (a failing one changes
\* nothing)
WRestore(id) ==
  /\ Call
  /\ LET r == Restore(disk, trash, id, "none")
     IN  /\ r.err = Nil
         /\ disk' = r.disk
         /\ trash' = r.trash
  /\ UNCHANGED <<extVars, now, faults, workerVars, histVars, cleanVars, scanVars>>

InitTrash ==
  InitCore /\ InitWorkers /\ InitHist /\ InitCleanIdle /\ InitScanIdle
    /\ InitExtIdle

NextTrash ==
  \/ Tick
  \/ \E w \in Workers, t \in TargetIds, f \in FaultKinds : WMoveBegin(w, t, f)
  \/ \E w \in Workers, f \in FaultKinds : WMoveMetadata(w, f)
  \/ \E w \in Workers, f \in FaultKinds : WMoveRename(w, f)
  \/ \E id \in Ids : WRestore(id)

SpecTrash == InitTrash /\ [][NextTrash]_vars

\* ------------------------------------------------------------------------
\* SpecSeq: one caller using the trash, one call after the other
\* ------------------------------------------------------------------------
DoMove(t, fault) ==
  /\ Call
  /\ Inject(fault)
  /\ LET r == Move(disk, trash, Target(t), now, fault)
     IN  /\ disk' = r.disk
         /\ trash' = r.trash
         /\ lastOp' = Returned("move", t, r.id, r.err, disk[TargetPath[t]], FALSE)
         /\ life' = IF r.err = Nil THEN [life EXCEPT ![r.id] = "active"] ELSE life
  /\ UNCHANGED <<extVars, now, workerVars, cleanVars, scanVars>>

\* Restore(id) as one call
DoRestore(id, fault) ==
  /\ fault \in {"none", "rename", "remove"}
  /\ Call
  /\ Inject(fault)
  /\ LET r == Restore(disk, trash, id, fault)
         after == lastOp.op = "move" /\ lastOp.err = Nil /\ lastOp.id = id
     IN  /\ disk' = r.disk
         /\ trash' = r.trash
         /\ lastOp' = IF after
                         THEN Returned("restore", lastOp.target, id, r.err,
                                       lastOp.before, TRUE)
                         ELSE Returned("restore", "none", id, r.err, NoEntry,
                                       FALSE)
         /\ life' = IF r.err = Nil THEN [life EXCEPT ![id] = "restored"] ELSE life
  /\ UNCHANGED <<extVars, now, workerVars, cleanVars, scanVars>>

\* the retention periods Clean is called with: none, and an hour in seconds
Retentions == {0, 3600}

\* Clean(ret) as one call; with the fault, the removal of one item fails
DoPurge(ret, fault, bad) ==
  /\ fault \in {"none", "remove"}
  /\ fault = "none" => bad = CHOOSE id \in Ids : TRUE
  /\ Call
  /\ Inject(fault)
  /\ LET r == TrashClean(trash, now, ret, IF fault = "remove" THEN {bad} ELSE {})
     IN  /\ trash' = r.trash
         /\ lastOp' = PurgeReturned(ret, r.err)
         /\ life' = [id \in Ids |->
                       IF trash[id].exists /\ ~r.trash[id].exists
                         THEN "purged" ELSE life[id]]
  /\ UNCHANGED <<extVars, now, disk, workerVars, cleanVars, scanVars>>

NextSeq ==
  \/ Tick
  \/ \E p \in Paths : Recreate(p)
  \/ \E t \in TargetIds, f \in FaultKinds : DoMove(t, f)
  \/ \E id \in Ids, f \in {"none", "rename", "remove"} : DoRestore(id, f)

SpecSeq == InitTrash /\ [][NextSeq]_vars

\* SpecLife: the sequences of SpecSeq with Trash.Clean among the calls
NextLife ==
  \/ NextSeq
  \/ \E ret \in Retentions, f \in {"none", "remove"}, bad \in Ids :
       DoPurge(ret, f, bad)

SpecLife == InitTrash /\ [][NextLife]_vars

\* ------------------------------------------------------------------------
\* SpecClean: one call of Cleaner.Clean
\* ------------------------------------------------------------------------
\* target lists of up to MaxTargets entries
TargetLists ==
  UNION {[1 .. n -> TargetIds] : n \in 0 .. MaxTargets}

\* Clean is called: any target list, some paths already removed externally,
\* at most one parent directory read-only
InitClean ==
  /\ now = 0
  /\ disk \in [Paths -> Contents \cup {NoEntry}]
  /\ \A t \in TargetIds : disk[TargetPath[t]] \in {Content(t), NoEntry}
  /\ trash = [id \in Ids |-> NoDir]
  /\ faults = 0
  /\ calls = 0
  /\ InitWorkers
  /\ InitHist
  /\ InitExtIdle
  /\ ctargets \in TargetLists
  /\ useTrash \in BOOLEAN
  /\ roParents \in {{}} \cup {{q} : q \in Parents}
  /\ cancelled = FALSE
  /\ cpc = "loop"
  /\ cidx = 1
  /\ report = EmptyReport
  /\ cerr = Nil
  /\ cmissing = {t \in TargetIds : ~Exists(disk, TargetPath[t])}
  /\ InitScanIdle

\* the caller cancels the context
Cancel ==
  /\ cpc = "loop"
  /\ ~cancelled
  /\ cancelled' = TRUE
  /\ UNCHANGED <<extVars, coreVars, workerVars, histVars, ctargets, useTrash,
                 roParents, cpc, cidx, report, cerr, cmissing, scanVars>>

\* Clean, lines 63-70: the context is done when the loop reaches a target
CleanCancelled ==
  /\ cpc = "loop"
  /\ cidx <= Len(ctargets)
  /\ cancelled
  /\ cpc' = "done"
  /\ cerr' = "context canceled"
  /\ UNCHANGED <<extVars, coreVars, workerVars, histVars, ctargets, useTrash,
                 roParents, cancelled, cidx, report, cmissing, scanVars>>

\* Clean, lines 63-114: one target of the loop
CleanNext(fault) ==
  /\ cpc = "loop"
  /\ cidx <= Len(ctargets)
  /\ ~cancelled
  /\ Inject(fault)
  /\ LET r == CleanTarget(disk, trash, roParents, report, ctargets[cidx],
                          useTrash, now, fault)
     IN  /\ disk' = r.disk
         /\ trash' = r.trash
         /\ report' = r.report
         /\ IF r.next = "continue"
              THEN /\ cidx' = cidx + 1
                   /\ UNCHANGED <<cpc, cerr>>
              ELSE /\ cpc' = "done"
                   /\ cerr' = r.next
                   /\ UNCHANGED cidx
  /\ UNCHANGED <<extVars, now, calls, workerVars, histVars, ctargets, useTrash,
                 roParents, cancelled, cmissing, scanVars>>

\* Clean, lines 116-124: the loop is over
CleanReturn ==
  /\ cpc = "loop"
  /\ cidx > Len(ctargets)
  /\ cpc' = "done"
  /\ cerr' = Nil
  /\ UNCHANGED <<extVars, coreVars, workerVars, histVars, ctargets, useTrash,
                 roParents, cancelled, cidx, report, cmissing, scanVars>>

\* a second passes while Clean runs
CleanTick == cpc = "loop" /\ Tick

NextClean ==
  \/ CleanTick
  \/ Cancel
  \/ CleanCancelled
  \/ \E f \in FaultKinds : CleanNext(f)
  \/ CleanReturn

SpecClean == InitClean /\ [][NextClean]_vars

\* ------------------------------------------------------------------------
\* SpecCleanSteps: one call of Cleaner.Clean, the context check of a target
\* and the work on it being separate steps
\* ------------------------------------------------------------------------
cleanStepRest ==
  <<loaderVars, asyncVars, cleanAsyncVars, cmdVars, plugins, calcFS, calcPath,
    calcRes, loadDir, loadRes, regVars, sheld, coordVars, tuiVars, workerVars,
    histVars, ctargets,
    useTrash, roParents, cmissing, scanVars>>

\* the caller cancels the context, at any point of the loop
StepCancel ==
  /\ cpc = "loop"
  /\ ~cancelled
  /\ cancelled' = TRUE
  /\ UNCHANGED <<cleanStepRest, coreVars, cpc, cidx, report, cerr, cbegun>>

\* Clean, lines 65-70, default branch: the context is not done
StepCheck ==
  /\ cpc = "loop"
  /\ cidx <= Len(ctargets)
  /\ ~cbegun
  /\ ~cancelled
  /\ cbegun' = TRUE
  /\ UNCHANGED <<cleanStepRest, coreVars, cancelled, cpc, cidx, report, cerr>>

\* Clean, lines 65-69: the context is done, the report so far is returned
StepCancelled ==
  /\ cpc = "loop"
  /\ cidx <= Len(ctargets)
  /\ ~cbegun
  /\ cancelled
  /\ cpc' = "done"
  /\ cerr' = "context canceled"
  /\ UNCHANGED <<cleanStepRest, coreVars, cancelled, cidx, report, cbegun>>

\* a loop body that gives a target up when the context is done meanwhile
StepBodyInterrupted(fault) ==
  /\ cpc = "loop"
  /\ cbegun
  /\ Inject(fault)
  /\ LET r == CleanTarget(disk, trash, roParents, report, ctargets[cidx],
                          useTrash, now, fault)
     IN  IF cancelled
           THEN UNCHANGED <<disk, trash, report, cidx>>
           ELSE /\ disk' = r.disk
                /\ trash' = r.trash
                /\ report' = r.report
                /\ cidx' = cidx + 1
  /\ cbegun' = FALSE
  /\ UNCHANGED <<cleanStepRest, now, calls, cancelled, cpc, cerr>>

\* Clean, lines 72-113: the permission check, the move or the removal and
\* the report update of the target; the context is not looked at
StepBody(fault) ==
  /\ cpc = "loop"
  /\ cbegun
  /\ Inject(fault)
  /\ LET r == CleanTarget(disk, trash, roParents, report, ctargets[cidx],
                          useTrash, now, fault)
     IN  /\ disk' = r.disk
         /\ trash' = r.trash
         /\ report' = r.report
         /\ cidx' = cidx + 1
  /\ cbegun' = FALSE
  /\ UNCHANGED <<cleanStepRest, now, calls, cancelled, cpc, cerr>>

\* Clean, lines 116-124: the loop is over
StepReturn ==
  /\ cpc = "loop"
  /\ cidx > Len(ctargets)
  /\ cpc' = "done"
  /\ cerr' = Nil
  /\ UNCHANGED <<cleanStepRest, coreVars, cancelled, cidx, report, cbegun>>

NextCleanSteps ==
  \/ StepCancel
  \/ StepCheck
  \/ StepCancelled
  \/ \E f \in FaultKinds : StepBody(f)
  \/ StepReturn

SpecCleanSteps == InitClean /\ [][NextCleanSteps]_vars

\* ------------------------------------------------------------------------
\* SpecCleanAsync: one call of Cleaner.CleanAsync and the consumer of its
\* progress channel
\* ------------------------------------------------------------------------
\* progressCh := make(chan CleanProgress, 10)
ProgressCap == 10

\* the variables no step of CleanAsync changes
everythingButCleanAsync ==
  <<calls, workerVars, histVars, ctargets, useTrash, roParents, cpc, cidx,
    report, cerr, cmissing, scanVars, loaderVars, asyncVars, cmdVars, plugins, libVars>>

\* the target lists of an asynchronous clean: no target twice
AsyncTargetLists ==
  {ts \in TargetLists : \A i, j \in 1 .. Len(ts) : i # j => ts[i] # ts[j]}

\* CleanAsync is called: a target list, one path perhaps already removed
\* externally, at most one parent directory read-only
InitCleanAsync ==
  /\ now = 0
  /\ disk \in [Paths -> Contents \cup {NoEntry}]
  /\ \A t \in TargetIds : disk[TargetPath[t]] \in {Content(t), NoEntry}
  /\ \A t \in TargetIds \ {"t2"} : Exists(disk, TargetPath[t])
  /\ trash = [id \in Ids |-> NoDir]
  /\ faults = 0
  /\ calls = 0
  /\ InitWorkers
  /\ InitHist
  /\ InitExtIdle
  /\ ctargets \in AsyncTargetLists
  /\ useTrash \in BOOLEAN
  /\ roParents \in {{}} \cup {{q} : q \in Parents}
  /\ cancelled = FALSE
  /\ cpc = "idle"
  /\ cidx = 1
  /\ report = EmptyReport
  /\ cerr = Nil
  /\ cmissing = {t \in TargetIds : ~Exists(disk, TargetPath[t])}
  /\ InitScanIdle

\* CleanAsync, lines 281-290: the jobs are sent and the channel is closed
\* (the jobs channel holds len(targets) jobs: no send blocks, the loop runs
\* through whatever the workers do)
QSubmit ==
  /\ ~qclosed
  /\ qjobs' = [i \in 1 .. Len(ctargets) |-> i]
  /\ qsub' = Len(ctargets) + 1
  /\ qclosed' = TRUE
  /\ UNCHANGED <<everythingButCleanAsync, now, disk, trash, faults, cancelled,
                 qwork, qresults, qfwd, pchan, pclosed, pevents>>

\* a worker that removes the target of a job it reports as cancelled
CTakeRemoves(w) ==
  /\ qwork[w] = 0
  /\ qjobs # <<>>
  /\ qjobs' = Tail(qjobs)
  /\ LET i == Head(qjobs)
     IN  IF cancelled
           THEN /\ qresults' = qresults
                                 \o CancelledJob(i, Len(ctargets), ctargets[i])
                /\ disk' = [disk EXCEPT ![TargetPath[ctargets[i]]] = NoEntry]
                /\ UNCHANGED qwork
           ELSE /\ qwork' = [qwork EXCEPT ![w] = i]
                /\ UNCHANGED <<qresults, disk>>
  /\ UNCHANGED <<everythingButCleanAsync, now, trash, faults, cancelled,
                 qsub, qclosed, qfwd, pchan, pclosed, pevents>>

\* CleanAsync, lines 224-235: a worker takes a job and looks at the context
CTake(w) ==
  /\ qwork[w] = 0
  /\ qjobs # <<>>
  /\ qjobs' = Tail(qjobs)
  /\ LET i == Head(qjobs)
     IN  IF cancelled
           THEN /\ qresults' = qresults
                                 \o CancelledJob(i, Len(ctargets), ctargets[i])
                /\ UNCHANGED qwork
           ELSE /\ qwork' = [qwork EXCEPT ![w] = i]
                /\ UNCHANGED qresults
  /\ UNCHANGED <<everythingButCleanAsync, now, disk, trash, faults, cancelled,
                 qsub, qclosed, qfwd, pchan, pclosed, pevents>>

\* the syscalls a worker makes for a target: none when canDelete refuses,
\* else those of Move or the one of os.RemoveAll
JobFaults(d, ro, t, trashOn) ==
  IF canDelete(d, ro, TargetPath[t]) # Nil THEN {"none"}
  ELSE IF trashOn THEN FaultKinds \ {"remove"}
  ELSE {"none", "remove"}

\* CleanAsync, lines 238-275: the worker cleans the target and reports it
CWork(w, fault) ==
  /\ qwork[w] # 0
  /\ fault \in JobFaults(disk, roParents, ctargets[qwork[w]], useTrash)
  /\ Inject(fault)
  /\ LET i == qwork[w]
         r == CleanJob(disk, trash, roParents, ctargets[i], useTrash, now, fault)
     IN  /\ disk' = r.disk
         /\ trash' = r.trash
         /\ qresults' = Append(qresults,
                               Progress(i, Len(ctargets), ctargets[i], r.err))
  /\ qwork' = [qwork EXCEPT ![w] = 0]
  /\ UNCHANGED <<everythingButCleanAsync, now, cancelled, qjobs, qsub, qclosed,
                 qfwd, pchan, pclosed, pevents>>

\* CleanAsync, lines 293-296: the next result is collected and forwarded
QForward ==
  /\ qclosed
  /\ qfwd < Len(ctargets)
  /\ qresults # <<>>
  /\ Len(pchan) < ProgressCap
  /\ pchan' = Append(pchan, Head(qresults))
  /\ qresults' = Tail(qresults)
  /\ qfwd' = qfwd + 1
  /\ UNCHANGED <<everythingButCleanAsync, now, disk, trash, faults, cancelled,
                 qjobs, qsub, qclosed, qwork, pclosed, pevents>>

\* CleanAsync, lines 210 and 293: len(targets) results were forwarded, the
\* goroutine returns and progressCh is closed
QDone ==
  /\ qclosed
  /\ qfwd = Len(ctargets)
  /\ ~pclosed
  /\ pclosed' = TRUE
  /\ UNCHANGED <<everythingButCleanAsync, now, disk, trash, faults, cancelled,
                 qjobs, qsub, qclosed, qwork, qresults, qfwd, pchan, pevents>>

\* the consumer receives the next progress event
PRecv ==
  /\ pchan # <<>>
  /\ pevents' = Append(pevents, Head(pchan))
  /\ pchan' = Tail(pchan)
  /\ UNCHANGED <<everythingButCleanAsync, now, disk, trash, faults, cancelled,
                 qjobs, qsub, qclosed, qwork, qresults, qfwd, pclosed>>

\* the caller cancels the context while CleanAsync runs
QCancel ==
  /\ ~pclosed
  /\ ~cancelled
  /\ cancelled' = TRUE
  /\ UNCHANGED <<everythingButCleanAsync, now, disk, trash, faults, qjobs, qsub,
                 qclosed, qwork, qresults, qfwd, pchan, pclosed, pevents>>

\* a step of one of CleanAsync's goroutines or of the consumer
CleanAsyncStep ==
  \/ QSubmit
  \/ \E w \in CleanWorkers : CTake(w)
  \/ \E w \in CleanWorkers, f \in FaultKinds : CWork(w, f)
  \/ QForward
  \/ QDone
  \/ PRecv

NextCleanAsync ==
  \/ CleanAsyncStep
  \/ QCancel

\* while a goroutine of CleanAsync or the consumer can take a step, one of
\* them is scheduled: no syscall hangs and the consumer keeps receiving
CleanAsyncFair == WF_vars(CleanAsyncStep)

SpecCleanAsync == InitCleanAsync /\ [][NextCleanAsync]_vars

\* SpecCleanAsyncFair: the calls of CleanAsync on the first targets of t1, t2,
\* t3 with every parent directory writable, scheduled fairly
InitCleanAsyncFair ==
  /\ InitCleanAsync
  /\ \E n \in 0 .. 3 : n <= MaxTargets /\ ctargets = SubSeq(<<"t1", "t2", "t3">>, 1, n)
  /\ roParents = {}

SpecCleanAsyncFair ==
  InitCleanAsyncFair /\ [][NextCleanAsync]_vars /\ CleanAsyncFair

\* ------------------------------------------------------------------------
\* SpecCmd: the clean command (runClean) and the TUI (startClean) calling
\* the cleaner
\* ------------------------------------------------------------------------
\* CleanOptions left at Go's zero value
CleanOptionsZero(flag) == [UseTrash |-> FALSE]

\* runClean: cleanOpts := cleaner.CleanOptions{UseTrash: !cleanNoTrash, ...}
runCleanOptions(flag) == [UseTrash |-> ~flag]

\* startClean: opts := cleaner.CleanOptions{UseTrash: true, ...}
startCleanOptions == [UseTrash |-> TRUE]

\* the variables neither command changes before it calls the cleaner
cmdRest ==
  <<coreVars, workerVars, histVars, ctargets, roParents, cancelled, cidx,
    report, cerr, cmissing, scanVars, loaderVars, asyncVars, cleanAsyncVars,
    entry, noTrash, plugins, libVars>>

\* a command was started: rosia clean with or without --no-trash, or the TUI
\* (which has no such flag); ctargets are the targets found or selected
InitCmd ==
  /\ now = 0
  /\ disk \in [Paths -> Contents \cup {NoEntry}]
  /\ \A t \in TargetIds : disk[TargetPath[t]] \in {Content(t), NoEntry}
  /\ \A t \in TargetIds \ {"t2"} : Exists(disk, TargetPath[t])
  /\ trash = [id \in Ids |-> NoDir]
  /\ faults = 0
  /\ calls = 0
  /\ InitWorkers
  /\ InitHist
  /\ InitLoaderIdle /\ InitAsyncIdle /\ InitCleanAsyncIdle
  /\ plugins = <<>>
  /\ InitLibIdle
  /\ ctargets \in AsyncTargetLists
  /\ useTrash = CleanOptionsZero(FALSE).UseTrash
  /\ roParents = {}
  /\ cancelled = FALSE
  /\ cpc = "idle"
  /\ cidx = 1
  /\ report = EmptyReport
  /\ cerr = Nil
  /\ cmissing = {t \in TargetIds : ~Exists(disk, TargetPath[t])}
  /\ InitScanIdle
  /\ entry \in {"clean", "ui"}
  /\ noTrash \in BOOLEAN
  /\ entry = "ui" => noTrash = FALSE
  /\ cmdpc = "start"

\* runClean, lines 163-215: nothing found, or the user declines at the
\* prompt (proceed: --yes was given or the answer was yes): the command
\* returns; else the options are built and CleanAsync is called
RunClean(proceed) ==
  /\ cmdpc = "start"
  /\ entry = "clean"
  /\ IF ctargets = <<>> \/ ~proceed
       THEN /\ cmdpc' = "done"
            /\ UNCHANGED useTrash
       ELSE /\ cmdpc' = "cleaning"
            /\ useTrash' = runCleanOptions(noTrash).UseTrash
  /\ UNCHANGED <<cmdRest, cpc>>

\* TUIModel.startClean, lines 67-94: nothing selected, or Clean is called
StartClean ==
  /\ cmdpc = "start"
  /\ entry = "ui"
  /\ IF ctargets = <<>>
       THEN /\ cmdpc' = "done"
            /\ UNCHANGED <<useTrash, cpc>>
       ELSE /\ cmdpc' = "cleaning"
            /\ useTrash' = startCleanOptions.UseTrash
            /\ cpc' = "loop"
  /\ UNCHANGED cmdRest

\* runClean, line 222: CleanAsync and the collection of its events
CmdCleanAsync == cmdpc = "cleaning" /\ entry = "clean" /\ NextCleanAsync

\* startClean, line 87: Clean
CmdClean == cmdpc = "cleaning" /\ entry = "ui" /\ NextClean

\* the cleaner is through and the command returns
CmdReturn ==
  /\ cmdpc = "cleaning"
  /\ \/ entry = "clean" /\ pclosed /\ pchan = <<>>
     \/ entry = "ui" /\ cpc = "done"
  /\ cmdpc' = "done"
  /\ UNCHANGED <<cmdRest, useTrash, cpc>>

NextCmd ==
  \/ \E proceed \in BOOLEAN : RunClean(proceed)
  \/ StartClean
  \/ CmdCleanAsync
  \/ CmdClean
  \/ CmdReturn

SpecCmd == InitCmd /\ [][NextCmd]_vars

\* ------------------------------------------------------------------------
\* SpecScan: one call of Scanner.Scan, with the sizing pass
\* ------------------------------------------------------------------------
RootChoices ==
  { <<"w">>, <<"w", "app">>, <<"w", "ds">>, <<"w", "app", "nm", "lib">> }

RootLists == UNION {[1 .. n -> RootChoices] : n \in 1 .. MaxRoots}

OptionChoices ==
  [MaxDepth : {0, 1}, IncludeHidden : BOOLEAN,
   IgnorePaths : {<<>>, << << <<"w">>, <<"a", "*">> >> >>}]

InitScan ==
  /\ InitCore
  /\ InitWorkers
  /\ InitHist
  /\ InitCleanIdle
  /\ InitExtIdle
  /\ sroots \in RootLists
  /\ sopts \in OptionChoices
  /\ spc = "roots"
  /\ InitScanRest

cleanRest ==
  <<ctargets, useTrash, roParents, cpc, cidx, report, cerr, cmissing>>

sizingVars == <<jobs, subi, results, nerrors, swork, stop>>

\* the caller cancels the context while Scan runs
ScanCancel ==
  /\ spc \in {"roots", "walk", "submit", "wait"}
  /\ ~cancelled
  /\ cancelled' = TRUE
  /\ cancelAt' = spc
  /\ UNCHANGED <<extVars, coreVars, workerVars, histVars, cleanRest, sroots, sopts,
                 spc, sri, wstack, ptargets, stargets, matchCache, gone,
                 sizingVars, sret, serr>>

\* a discovered target is removed by somebody else before it is sized
Vanish(i) ==
  /\ spc = "submit"
  /\ i \in subi .. Len(results)
  /\ results[i].Path \notin gone
  /\ gone' = gone \cup {results[i].Path}
  /\ UNCHANGED <<extVars, coreVars, workerVars, histVars, cleanVars, sroots, sopts,
                 spc, sri, wstack, ptargets, stargets, matchCache,
                 sizingVars, sret, serr, cancelAt>>

\* Scan, lines 93-100: the context is done when the loop reaches a root
ScanCancelledAtRoot ==
  /\ spc = "roots"
  /\ sri <= Len(sroots)
  /\ cancelled
  /\ spc' = "done"
  /\ sret' = stargets
  /\ serr' = Canceled
  /\ UNCHANGED <<extVars, coreVars, workerVars, histVars, cleanVars, sroots, sopts,
                 sri, wstack, ptargets, stargets, matchCache, gone,
                 sizingVars, cancelAt>>

\* Scan, line 104, scanPath, lines 197-215: the root is matched, the walk
\* starts
ScanStartRoot ==
  /\ spc = "roots"
  /\ sri <= Len(sroots)
  /\ ~cancelled
  /\ LET rm == RootMatch(matchCache, sroots[sri])
     IN  /\ matchCache' = rm.cache
         /\ ptargets' = rm.emit
  /\ wstack' = <<sroots[sri]>>
  /\ spc' = "walk"
  /\ UNCHANGED <<extVars, coreVars, workerVars, histVars, cleanVars, sroots, sopts,
                 sri, stargets, gone, sizingVars, sret, serr, cancelAt>>

\* scanPath returned pts and nil: Scan, lines 110-111, goes to the next root
RootFinished(pts) ==
  /\ stargets' = stargets \o pts
  /\ ptargets' = <<>>
  /\ wstack' = <<>>
  /\ sri' = sri + 1
  /\ spc' = "roots"

\* scanPath, lines 216-221 and 298-302: the callback finds the context done,
\* the walk stops with context.Canceled, which scanPath turns into nil
WalkCancelled ==
  /\ spc = "walk"
  /\ cancelled
  /\ RootFinished(ptargets)
  /\ UNCHANGED <<extVars, coreVars, workerVars, histVars, cleanVars, sroots, sopts,
                 matchCache, gone, sizingVars, sret, serr, cancelAt>>

\* scanPath, lines 215-302: WalkDir visits the next entry; after the last
\* entry scanPath returns
WalkStep ==
  /\ spc = "walk"
  /\ ~cancelled
  /\ LET v == Visit(matchCache, sroots[sri], sopts, Head(wstack))
         rest == WalkRest(wstack, v.ret)
     IN  /\ matchCache' = v.cache
         /\ IF rest = <<>>
              THEN RootFinished(ptargets \o v.emit)
              ELSE /\ ptargets' = ptargets \o v.emit
                   /\ wstack' = rest
                   /\ UNCHANGED <<stargets, sri, spc>>
  /\ UNCHANGED <<extVars, coreVars, workerVars, histVars, cleanVars, sroots, sopts,
                 gone, sizingVars, sret, serr, cancelAt>>

\* Scan, lines 114-151, CalculateTargets, lines 98-112: all roots walked (no
\* plugin registry is set); without targets Scan returns, else the sizing
\* pass starts on a copy of the targets
ScanRootsDone ==
  /\ spc = "roots"
  /\ sri > Len(sroots)
  /\ LET targets == WithPluginTargets(stargets, scanPlugins(plugins))
     IN  IF targets = <<>>
           THEN /\ spc' = "done"
                /\ sret' = targets
                /\ serr' = NoErr
                /\ UNCHANGED results
           ELSE /\ spc' = "submit"
                /\ results' = targets
                /\ UNCHANGED <<sret, serr>>
  /\ UNCHANGED <<extVars, coreVars, workerVars, histVars, cleanVars, sroots, sopts,
                 sri, wstack, ptargets, stargets, matchCache, gone, jobs,
                 subi, nerrors, swork, stop, cancelAt>>

\* CalculateTargets, lines 145-152: the select sends the next index
SubmitJob ==
  /\ spc = "submit"
  /\ subi <= Len(results)
  /\ jobs' = Append(jobs, subi)
  /\ subi' = subi + 1
  /\ UNCHANGED <<extVars, coreVars, workerVars, histVars, cleanVars, sroots, sopts,
                 spc, sri, wstack, ptargets, stargets, matchCache, gone,
                 results, nerrors, swork, stop, sret, serr, cancelAt>>

\* CalculateTargets, lines 146-150: the select takes the done context,
\* closes the jobs channel and waits for the workers
SubmitCancelled ==
  /\ spc = "submit"
  /\ subi <= Len(results)
  /\ cancelled
  /\ stop' = Canceled
  /\ spc' = "wait"
  /\ UNCHANGED <<extVars, coreVars, workerVars, histVars, cleanVars, sroots, sopts,
                 sri, wstack, ptargets, stargets, matchCache, gone, jobs,
                 subi, results, nerrors, swork, sret, serr, cancelAt>>

\* CalculateTargets, lines 155-156: every index submitted, the channel is
\* closed
SubmitDone ==
  /\ spc = "submit"
  /\ subi > Len(results)
  /\ spc' = "wait"
  /\ UNCHANGED <<extVars, coreVars, workerVars, histVars, cleanVars, sroots, sopts,
                 sri, wstack, ptargets, stargets, matchCache, gone,
                 sizingVars, sret, serr, cancelAt>>

\* CalculateTargets, lines 119-140: a worker receives an index; it returns
\* when the context is done, else it sizes the target
WorkerJob(w) ==
  /\ spc \in {"submit", "wait"}
  /\ swork[w]
  /\ jobs # <<>>
  /\ jobs' = Tail(jobs)
  /\ LET idx == Head(jobs)
         c == Calculate(gone, results[idx].Path)
     IN  IF cancelled
           THEN /\ swork' = [swork EXCEPT ![w] = FALSE]
                /\ UNCHANGED <<results, nerrors>>
         ELSE IF c.err # NoErr
           THEN /\ nerrors' = nerrors + 1
                /\ UNCHANGED <<results, swork>>
         ELSE /\ results' = [results EXCEPT ![idx].Size = c.size]
              /\ UNCHANGED <<nerrors, swork>>
  /\ UNCHANGED <<extVars, coreVars, workerVars, histVars, cleanVars, sroots, sopts,
                 spc, sri, wstack, ptargets, stargets, matchCache, gone,
                 subi, stop, sret, serr, cancelAt>>

\* CalculateTargets, lines 149-163, Scan, lines 129-140: the channel is
\* closed and every worker has left its loop; CalculateTargets returns and
\* Scan returns its result
ScanReturn ==
  /\ spc = "wait"
  /\ jobs = <<>> \/ \A w \in SizeWorkers : ~swork[w]
  /\ spc' = "done"
  /\ sret' = results
  /\ serr' = ScanSizeResult(CalcResult(Len(results), nerrors, stop))
  /\ UNCHANGED <<extVars, coreVars, workerVars, histVars, cleanVars, sroots, sopts,
                 sri, wstack, ptargets, stargets, matchCache, gone,
                 sizingVars, cancelAt>>

NextScan ==
  \/ ScanCancel
  \/ \E i \in 1 .. MaxRoots * Cardinality(DirNodes) : Vanish(i)
  \/ ScanCancelledAtRoot
  \/ ScanStartRoot
  \/ WalkCancelled
  \/ WalkStep
  \/ ScanRootsDone
  \/ SubmitJob
  \/ SubmitCancelled
  \/ SubmitDone
  \/ \E w \in SizeWorkers : WorkerJob(w)
  \/ ScanReturn

SpecScan == InitScan /\ [][NextScan]_vars

\* ------------------------------------------------------------------------
\* SpecPlugins: one call of Scanner.Scan with plugins in the registry
\* ------------------------------------------------------------------------
\* a target as a plugin reports it, with a size of the plugin's own
PluginTarget(path, name) ==
  [Path |-> path, ProfileName |-> name, Size |-> 7, IsDirectory |-> TRUE]

\* two plugins that report a directory each, and one whose Scan fails after
\* it found a directory
PluginChoices ==
  { [Name |-> "pa", Err |-> NoErr,
     Targets |-> <<PluginTarget(<<"w", ".h", "nm">>, "pa")>>],
    [Name |-> "pb", Err |-> NoErr,
     Targets |-> <<PluginTarget(<<"w", "app", "nm", "lib", "nm">>, "pb")>>],
    [Name |-> "bad", Err |-> <<"plugin scan failed">>,
     Targets |-> <<PluginTarget(<<"w", "ds", "nm">>, "bad")>>] }

\* the registries: up to MaxPlugins plugins, each registered once
PluginLists ==
  {ps \in UNION {[1 .. n -> PluginChoices] : n \in 0 .. MaxPlugins} :
     \A i, j \in 1 .. Len(ps) : i # j => ps[i] # ps[j]}

\* Scan is called on one root, of which one holds no target, with the
\* default options or with the hidden directories included
InitPlugins ==
  /\ InitCore
  /\ InitWorkers
  /\ InitHist
  /\ InitCleanIdle
  /\ InitLoaderIdle /\ InitAsyncIdle /\ InitCleanAsyncIdle /\ InitCmdIdle
  /\ plugins \in PluginLists
  /\ InitLibIdle
  /\ sroots \in {<<r>> : r \in RootChoices \cup {<<"w", "app", "nm", "lib", "nm">>}}
  /\ sopts \in {o \in OptionChoices : o.MaxDepth = 0 /\ o.IgnorePaths = <<>>}
  /\ spc = "roots"
  /\ InitScanRest

SpecPlugins == InitPlugins /\ [][NextScan]_vars

\* ------------------------------------------------------------------------
\* SpecWalk: one call of Scanner.Scan under the options that steer the walk
\* ------------------------------------------------------------------------
\* one root (a project's nm among them), a root and a directory beneath it,
\* or the same root twice
WalkRootLists ==
  {<<r>> : r \in RootChoices \cup {<<"w", "app", "nm">>}}
    \cup { << <<"w", "app">>, <<"w">> >>, << <<"w", "ds">>, <<"w", "ds">> >> }

\* depth limits up to the depth of the deepest project directory; the ignore
\* list empty, or naming one project by a glob or by its path
WalkOptionChoices ==
  [MaxDepth : {0, 1, 2}, IncludeHidden : BOOLEAN,
   IgnorePaths : {<<>>, << << <<"w">>, <<"a", "*">> >> >>,
                  << << <<"w">>, <<"d", "s">> >> >>}]

InitWalk ==
  /\ InitCore
  /\ InitWorkers
  /\ InitHist
  /\ InitCleanIdle
  /\ InitExtIdle
  /\ sroots \in WalkRootLists
  /\ sopts \in WalkOptionChoices
  /\ spc = "roots"
  /\ InitScanRest

SpecWalk == InitWalk /\ [][NextScan]_vars

\* ------------------------------------------------------------------------
\* SpecSize: SizeCalc.Calculate on a tree that holds symbolic links
\* ------------------------------------------------------------------------
\* /s holds a file f, a directory d with a file g and a link l, and a link k
LinkNodes ==
  { <<"s">>, <<"s", "f">>, <<"s", "d">>, <<"s", "d", "g">>,
    <<"s", "d", "l">>, <<"s", "k">> }

\* where a link may point: at the directory it lies in or beneath (a cycle),
\* at a file, at a directory, at nothing
LinkTargets == { <<"s">>, <<"s", "f">>, <<"s", "d">>, <<"x">> }

\* what Lstat reports of a link: the length of the target's spelling
LinkInfo(target) ==
  [kind |-> "symlink", size |-> 2 * Len(target), target |-> target]

LinkFS(tl, tk) ==
  [p \in LinkNodes |->
     CASE p = <<"s", "d", "l">> -> LinkInfo(tl)
       [] p = <<"s", "k">> -> LinkInfo(tk)
       [] p = <<"s", "f">> -> [kind |-> "file", size |-> 3, target |-> <<>>]
       [] p = <<"s", "d", "g">> -> [kind |-> "file", size |-> 5, target |-> <<>>]
       [] OTHER -> [kind |-> "dir", size |-> 64, target |-> <<>>]]

\* os.Lstat, DirEntry.Info: the entry itself, a link not being resolved
Lstat(lfs, p) ==
  IF p \in DOMAIN lfs THEN lfs[p]
  ELSE [kind |-> "none", size |-> 0, target |-> <<>>]

\* os.Stat: the entry a chain of links ends at
RECURSIVE Stat(_, _, _)
Stat(lfs, p, hops) ==
  LET info == Lstat(lfs, p)
  IN  IF info.kind # "symlink" THEN info
      ELSE IF hops = 0 THEN [kind |-> "none", size |-> 0, target |-> <<>>]
      ELSE Stat(lfs, info.target, hops - 1)

\* the callback with the size of what a link points at
walkAddsFollowing(lfs, p) ==
  LET info == Stat(lfs, p, Cardinality(DOMAIN lfs))
  IN  IF info.kind = "file" THEN info.size ELSE 0

\* Calculate, lines 63-86: what the WalkDir callback adds for one entry
walkAdds(lfs, p) ==
  LET info == Lstat(lfs, p)
  IN  IF info.kind = "symlink" THEN 0
      ELSE IF info.kind # "dir" THEN info.size
      ELSE 0

\* the names of the tree, sorted
LinkNames == <<"d", "f", "g", "k", "l", "s">>

\* os.ReadDir: the entries of a directory, sorted by name
ReadDir(lfs, dir) ==
  SelectSeq([i \in 1 .. Len(LinkNames) |-> dir \o <<LinkNames[i]>>],
            LAMBDA p : p \in DOMAIN lfs)

\* filepath.WalkDir with the callback of Calculate: only an entry that is
\* itself a directory (DirEntry.IsDir, false for a link) is read
RECURSIVE walkSize(_, _, _)
walkSize(lfs, stack, total) ==
  IF stack = <<>> THEN total
  ELSE LET p == Head(stack)
           below == IF Lstat(lfs, p).kind = "dir" THEN ReadDir(lfs, p) ELSE <<>>
       IN  walkSize(lfs, below \o Tail(stack), total + walkAdds(lfs, p))

\* Calculate, lines 44-95
CalculateLstat(lfs, path) ==
  LET info == Lstat(lfs, path)
  IN  IF info.kind = "none"
        THEN [size |-> 0, err |-> <<"failed to stat path">>]
      ELSE IF info.kind = "symlink" THEN [size |-> 0, err |-> NoErr]
      ELSE IF info.kind # "dir" THEN [size |-> info.size, err |-> NoErr]
      ELSE [size |-> walkSize(lfs, <<path>>, 0), err |-> NoErr]

\* Calculate is called on an entry of the tree or on a path that is missing
InitSize ==
  /\ InitCore /\ InitWorkers /\ InitHist /\ InitCleanIdle /\ InitScanIdle
  /\ InitLoaderIdle /\ InitAsyncIdle /\ InitCleanAsyncIdle /\ InitCmdIdle
  /\ plugins = <<>>
  /\ calcFS \in {LinkFS(tl, tk) : tl, tk \in LinkTargets}
  /\ calcPath \in LinkNodes \cup {<<"s", "z">>}
  /\ calcRes = <<>>
  /\ loadDir = <<>>
  /\ loadRes = <<>>
  /\ InitRegIdle
  /\ InitMoreIdle

DoCalculate ==
  /\ calcRes = <<>>
  /\ calcRes' = <<CalculateLstat(calcFS, calcPath)>>
  /\ UNCHANGED <<coreVars, workerVars, histVars, cleanVars, scanVars,
                 loaderVars, asyncVars, cleanAsyncVars, cmdVars, plugins,
                 calcFS, calcPath, loadDir, loadRes, regVars, moreVars>>

NextSize == DoCalculate

SpecSize == InitSize /\ [][NextSize]_vars

\* ------------------------------------------------------------------------
\* SpecLoad: profiles.Loader.LoadAll on a directory of definitions
\* ------------------------------------------------------------------------
\* filepath.Match's syntax check of a pattern: a class opened by [ holds at
\* least one character before its ], a backslash is followed by a character
GlobSyntaxOK(pat) ==
  \A i \in 1 .. Len(pat) :
    /\ pat[i] = "[" =>
         /\ i + 1 <= Len(pat) /\ pat[i + 1] # "]"
         /\ \E j \in i + 2 .. Len(pat) : pat[j] = "]"
    /\ pat[i] = "\\" => i < Len(pat)

\* the fields json.Unmarshal leaves in a types.Profile; a field the file
\* does not give keeps its zero value
ProfileFields(name, version, patterns, detect) ==
  [Name |-> name, Version |-> version, Patterns |-> patterns,
   Detect |-> detect, Enabled |-> TRUE]

GoodFields ==
  ProfileFields("Node.js", "1", << <<"n", "m">>, <<"d", "*">> >>,
                << <<"p", "j">> >>)

\* a directory entry: its name's suffix, whether it is a directory, whether
\* its content is JSON, and the fields the JSON gives
DefEntry(id, suffix, isDir, parses, fields) ==
  [id |-> id, suffix |-> suffix, isDir |-> isDir, parses |-> parses,
   fields |-> fields]

\* two valid definitions (one with a character class), one file for each
\* way a definition is invalid, and entries LoadAll does not read
DefChoices ==
  { DefEntry("a", ".json", FALSE, TRUE, GoodFields),
    DefEntry("b", ".json", FALSE, TRUE,
             [GoodFields EXCEPT !.Name = "Cls",
                                !.Patterns = << <<"[", "a", "b", "]">> >>]),
    DefEntry("c", ".json", FALSE, FALSE, GoodFields),
    DefEntry("d", ".json", FALSE, TRUE, [GoodFields EXCEPT !.Name = ""]),
    DefEntry("e", ".json", FALSE, TRUE, [GoodFields EXCEPT !.Version = ""]),
    DefEntry("f", ".json", FALSE, TRUE, [GoodFields EXCEPT !.Patterns = <<>>]),
    DefEntry("g", ".json", FALSE, TRUE, [GoodFields EXCEPT !.Detect = <<>>]),
    DefEntry("h", ".json", FALSE, TRUE,
             [GoodFields EXCEPT !.Patterns = << <<"n", "m">>, <<"[", "a">> >>]),
    DefEntry("i", ".json", FALSE, TRUE,
             [GoodFields EXCEPT !.Patterns = << <<"n", "m">>, <<>> >>]),
    DefEntry("j", ".json", FALSE, TRUE,
             [GoodFields EXCEPT !.Detect = << <<>> >>]),
    DefEntry("k", ".txt", FALSE, TRUE, GoodFields),
    DefEntry("l", ".json", TRUE, FALSE, GoodFields) }

\* the directories: up to MaxDefs entries, no entry twice
DefDirs ==
  {es \in UNION {[1 .. n -> DefChoices] : n \in 0 .. MaxDefs} :
     \A i, j \in 1 .. Len(es) : i # j => es[i].id # es[j].id}

\* validateProfile without the syntax check of the patterns
validateProfileNoGlob(profile) ==
  IF profile.Name = "" THEN <<"profile name is required">>
  ELSE IF profile.Version = "" THEN <<"profile version is required">>
  ELSE IF Len(profile.Patterns) = 0
    THEN <<"profile must have at least one pattern">>
  ELSE IF Len(profile.Detect) = 0
    THEN <<"profile must have at least one detect pattern">>
  ELSE NoErr

\* validateProfile, lines 875-911
validateProfile(profile) ==
  IF profile.Name = "" THEN <<"profile name is required">>
  ELSE IF profile.Version = "" THEN <<"profile version is required">>
  ELSE IF Len(profile.Patterns) = 0
    THEN <<"profile must have at least one pattern">>
  ELSE IF Len(profile.Detect) = 0
    THEN <<"profile must have at least one detect pattern">>
  ELSE IF \E i \in 1 .. Len(profile.Patterns) :
            /\ \A k \in 1 .. i - 1 :
                 profile.Patterns[k] # <<>> /\ GlobSyntaxOK(profile.Patterns[k])
            /\ profile.Patterns[i] = <<>>
    THEN <<"empty pattern found">>
  ELSE IF \E i \in 1 .. Len(profile.Patterns) :
            ~GlobSyntaxOK(profile.Patterns[i])
    THEN <<"invalid glob pattern">>
  ELSE IF \E i \in 1 .. Len(profile.Detect) : profile.Detect[i] = <<>>
    THEN <<"empty detect pattern found">>
  ELSE NoErr

\* LoadProfile, lines 855-872: the file is read, parsed and validated
LoadProfile(def) ==
  IF ~def.parses
    THEN [profile |-> <<>>, err |-> <<"failed to parse profile JSON">>]
  ELSE IF validateProfile(def.fields) # NoErr
    THEN [profile |-> <<>>,
          err |-> <<"profile validation failed">> \o validateProfile(def.fields)]
  ELSE [profile |-> <<def.fields>>, err |-> NoErr]

\* LoadAll, lines 820-837: the loop over the entries of the directory
RECURSIVE LoadAllLoop(_)
LoadAllLoop(entries) ==
  IF entries = <<>> THEN <<>>
  ELSE LET e == Head(entries)
           rest == LoadAllLoop(Tail(entries))
       IN  IF e.isDir THEN rest
           ELSE IF e.suffix # ".json" THEN rest
           ELSE IF LoadProfile(e).err # NoErr THEN rest
           ELSE LoadProfile(e).profile \o rest

\* LoadAll is called on a directory that exists
InitLoad ==
  /\ InitCore /\ InitWorkers /\ InitHist /\ InitCleanIdle /\ InitScanIdle
  /\ InitLoaderIdle /\ InitAsyncIdle /\ InitCleanAsyncIdle /\ InitCmdIdle
  /\ plugins = <<>>
  /\ calcFS = <<>>
  /\ calcPath = <<>>
  /\ calcRes = <<>>
  /\ loadDir \in DefDirs
  /\ loadRes = <<>>
  /\ InitRegIdle
  /\ InitMoreIdle

\* LoadAll, lines 809-852
DoLoadAll ==
  /\ loadRes = <<>>
  /\ LET profiles == LoadAllLoop(loadDir)
     IN  /\ lprofiles' = profiles
         /\ loadRes' = <<[profiles |-> profiles, err |-> NoErr]>>
  /\ UNCHANGED <<coreVars, workerVars, histVars, cleanVars, scanVars,
                 fsys, mcalls, fschanges, seen, lastMatch,
                 asyncVars, cleanAsyncVars, cmdVars, plugins,
                 calcFS, calcPath, calcRes, loadDir, regVars, moreVars>>

NextLoad == DoLoadAll

SpecLoad == InitLoad /\ [][NextLoad]_vars

\* ------------------------------------------------------------------------
\* SpecRegistry: plugins.Registry under concurrent callers (registry.go)
\* ------------------------------------------------------------------------
RegCallers == {"r1", "r2"}

RegNames == {"p", "q"}

\* a plugin is its name and its version; a nil Plugin is the empty tuple
NilPlugin == <<>>

\* two plugins named p, one named q, one with an empty name
PluginValues == { <<"p", "v1">>, <<"p", "v2">>, <<"q", "v1">>, <<"", "v1">> }

\* Register without the check for an existing plugin of that name
RegisterOverwrites(plugs, plugin) ==
  IF plugin = NilPlugin
    THEN [plugins |-> plugs, err |-> <<"plugin cannot be nil">>]
  ELSE IF plugin[1] = ""
    THEN [plugins |-> plugs, err |-> <<"plugin name cannot be empty">>]
  ELSE [plugins |-> [plugs EXCEPT ![plugin[1]] = plugin], err |-> NoErr]

\* Register, lines 44-65: the map after the call and the error returned
Register(plugs, plugin) ==
  IF plugin = NilPlugin
    THEN [plugins |-> plugs, err |-> <<"plugin cannot be nil">>]
  ELSE IF plugin[1] = ""
    THEN [plugins |-> plugs, err |-> <<"plugin name cannot be empty">>]
  ELSE IF plugs[plugin[1]] # NilPlugin
    THEN [plugins |-> plugs, err |-> <<"plugin is already registered">>]
  ELSE [plugins |-> [plugs EXCEPT ![plugin[1]] = plugin], err |-> NoErr]

\* Unregister, lines 116-127
Unregister(plugs, name) ==
  IF plugs[name] = NilPlugin
    THEN [plugins |-> plugs, err |-> <<"plugin not found">>]
  ELSE [plugins |-> [plugs EXCEPT ![name] = NilPlugin], err |-> NoErr]

\* Get, lines 90-100
Get(plugs, name) ==
  IF plugs[name] = NilPlugin
    THEN [plugin |-> NilPlugin, err |-> <<"plugin not found">>]
  ELSE [plugin |-> plugs[name], err |-> NoErr]

\* the calls a caller may make
RegCallChoices ==
  [op : {"Register"}, arg : PluginValues \cup {NilPlugin}]
    \cup [op : {"Unregister", "Get"}, arg : RegNames]

\* NewRegistry: an empty map, callers that have not called yet
InitRegistry ==
  /\ InitCore /\ InitWorkers /\ InitHist /\ InitCleanIdle /\ InitScanIdle
  /\ InitLoaderIdle /\ InitAsyncIdle /\ InitCleanAsyncIdle /\ InitCmdIdle
  /\ plugins = <<>>
  /\ calcFS = <<>> /\ calcPath = <<>> /\ calcRes = <<>>
  /\ loadDir = <<>> /\ loadRes = <<>>
  /\ InitMoreIdle
  /\ registry = [n \in RegNames |-> NilPlugin]
  /\ regPend = [c \in RegCallers |-> <<>>]
  /\ regCalls = 0
  /\ regLast = [n \in RegNames |-> "none"]
  /\ regLog = <<>>

regRest ==
  <<coreVars, workerVars, histVars, cleanVars, scanVars, loaderVars,
    asyncVars, cleanAsyncVars, cmdVars, plugins, calcFS, calcPath, calcRes,
    loadDir, loadRes, moreVars>>

\* a goroutine calls a method of the registry
RegBegin(c, call) ==
  /\ regPend[c] = <<>>
  /\ regCalls < MaxRegCalls
  /\ regCalls' = regCalls + 1
  /\ regPend' = [regPend EXCEPT ![c] = <<call>>]
  /\ UNCHANGED <<regRest, registry, regLast, regLog>>

\* the call runs, under r.mu where it touches the map, and returns
RegReturn(c) ==
  /\ regPend[c] # <<>>
  /\ LET call == regPend[c][1]
         r == CASE call.op = "Register" -> Register(registry, call.arg)
                [] call.op = "Unregister" -> Unregister(registry, call.arg)
                [] OTHER -> [plugins |-> registry,
                             err |-> Get(registry, call.arg).err]
         got == IF call.op = "Get" THEN Get(registry, call.arg).plugin
                ELSE NilPlugin
     IN  /\ registry' = r.plugins
         /\ regLast' =
              IF r.err = NoErr /\ call.op = "Register"
                THEN [regLast EXCEPT ![call.arg[1]] = "Register"]
              ELSE IF r.err = NoErr /\ call.op = "Unregister"
                THEN [regLast EXCEPT ![call.arg] = "Unregister"]
              ELSE regLast
         /\ regLog' = <<[op |-> call.op, arg |-> call.arg, err |-> r.err,
                         got |-> got, before |-> registry]>>
  /\ regPend' = [regPend EXCEPT ![c] = <<>>]
  /\ UNCHANGED <<regRest, regCalls>>

NextRegistry ==
  \/ \E c \in RegCallers, call \in RegCallChoices : RegBegin(c, call)
  \/ \E c \in RegCallers : RegReturn(c)

SpecRegistry == InitRegistry /\ [][NextRegistry]_vars

\* ------------------------------------------------------------------------
\* SpecSizing: one call of SizeCalc.CalculateTargets, a worker's receive
\* and its Calculate being separate steps
\* ------------------------------------------------------------------------
\* the targets handed over: directories of the tree under two profile
\* names, with a size set beforehand, and a path that may be missing
SizingChoices ==
  { PluginTarget(<<"w", "app", "nm">>, "Node.js"),
    PluginTarget(<<"w", "ds">>, "pa"),
    PluginTarget(<<"w", "ds", "nm">>, "Node.js") }

SizingLists == UNION {[1 .. n -> SizingChoices] : n \in 0 .. MaxTargets}

\* stargets holds the slice CalculateTargets was called with
InitSizing ==
  /\ InitCore /\ InitWorkers /\ InitHist /\ InitCleanIdle
  /\ InitExtIdle
  /\ sroots = <<>>
  /\ sopts = [MaxDepth |-> 0, IncludeHidden |-> FALSE, IgnorePaths |-> <<>>]
  /\ spc = "submit"
  /\ sri = 1
  /\ wstack = <<>>
  /\ ptargets = <<>>
  /\ stargets \in SizingLists
  /\ matchCache = [d \in DirNodes |-> -1]
  /\ gone \in {{}, {<<"w", "ds", "nm">>}}
  /\ jobs = <<>>
  /\ subi = 1
  /\ results = stargets
  /\ nerrors = 0
  /\ swork = [w \in SizeWorkers |-> TRUE]
  /\ stop = NoErr
  /\ sret = <<>>
  /\ serr = NoErr
  /\ cancelAt = "never"

sizingRest ==
  <<coreVars, workerVars, histVars, ctargets, useTrash, roParents, cpc, cidx,
    report, cerr, cmissing, sroots, sopts, sri, wstack, ptargets, stargets,
    matchCache, gone, cancelAt, loaderVars, asyncVars, cleanAsyncVars,
    cmdVars, plugins, calcFS, calcPath, calcRes, loadDir, loadRes, regVars,
    cbegun, coordVars, tuiVars>>

\* CalculateTargets, lines 99-101: nothing to size
CalcEmpty ==
  /\ spc = "submit"
  /\ results = <<>>
  /\ spc' = "done"
  /\ sret' = results
  /\ serr' = NoErr
  /\ UNCHANGED <<sizingRest, cancelled, jobs, subi, results, nerrors, swork,
                 stop, sheld>>

\* the caller cancels the context
CalcCancel ==
  /\ spc \in {"submit", "wait"}
  /\ ~cancelled
  /\ cancelled' = TRUE
  /\ UNCHANGED <<sizingRest, spc, jobs, subi, results, nerrors, swork, stop,
                 sret, serr, sheld>>

\* lines 145-152: the select sends the next index
CalcSubmit ==
  /\ spc = "submit"
  /\ results # <<>>
  /\ subi <= Len(results)
  /\ jobs' = Append(jobs, subi)
  /\ subi' = subi + 1
  /\ UNCHANGED <<sizingRest, cancelled, spc, results, nerrors, swork, stop,
                 sret, serr, sheld>>

\* lines 146-150: the select takes the done context
CalcSubmitCancelled ==
  /\ spc = "submit"
  /\ results # <<>>
  /\ subi <= Len(results)
  /\ cancelled
  /\ stop' = Canceled
  /\ spc' = "wait"
  /\ UNCHANGED <<sizingRest, cancelled, jobs, subi, results, nerrors, swork,
                 sret, serr, sheld>>

\* lines 155-156: every index is sent, the channel is closed
CalcSubmitDone ==
  /\ spc = "submit"
  /\ results # <<>>
  /\ subi > Len(results)
  /\ spc' = "wait"
  /\ UNCHANGED <<sizingRest, cancelled, jobs, subi, results, nerrors, swork,
                 stop, sret, serr, sheld>>

\* lines 119-125: a worker receives an index and returns when the context
\* is done
CalcTake(w) ==
  /\ spc \in {"submit", "wait"}
  /\ swork[w]
  /\ sheld[w] = 0
  /\ jobs # <<>>
  /\ jobs' = Tail(jobs)
  /\ IF cancelled
       THEN /\ swork' = [swork EXCEPT ![w] = FALSE]
            /\ UNCHANGED sheld
       ELSE /\ sheld' = [sheld EXCEPT ![w] = Head(jobs)]
            /\ UNCHANGED swork
  /\ UNCHANGED <<sizingRest, cancelled, spc, subi, results, nerrors, stop,
                 sret, serr>>

\* a worker that stores each size in the first element
CalcFinishFirstSlot(w) ==
  /\ sheld[w] # 0
  /\ LET c == Calculate(gone, results[sheld[w]].Path)
     IN  IF c.err # NoErr
           THEN /\ nerrors' = nerrors + 1
                /\ UNCHANGED results
           ELSE /\ results' = [results EXCEPT ![1].Size = c.size]
                /\ UNCHANGED nerrors
  /\ sheld' = [sheld EXCEPT ![w] = 0]
  /\ UNCHANGED <<sizingRest, cancelled, spc, jobs, subi, swork, stop, sret,
                 serr>>

\* lines 127-139: the worker sizes the path of its index and stores the
\* size in that element, or collects the error
CalcFinish(w) ==
  /\ sheld[w] # 0
  /\ LET idx == sheld[w]
         c == Calculate(gone, results[idx].Path)
     IN  IF c.err # NoErr
           THEN /\ nerrors' = nerrors + 1
                /\ UNCHANGED results
           ELSE /\ results' = [results EXCEPT ![idx].Size = c.size]
                /\ UNCHANGED nerrors
  /\ sheld' = [sheld EXCEPT ![w] = 0]
  /\ UNCHANGED <<sizingRest, cancelled, spc, jobs, subi, swork, stop, sret,
                 serr>>

\* lines 149-163: the channel is closed and wg.Wait returns: every worker
\* has returned or has found the channel drained
CalcReturn ==
  /\ spc = "wait"
  /\ \A w \in SizeWorkers : sheld[w] = 0 /\ (jobs = <<>> \/ ~swork[w])
  /\ spc' = "done"
  /\ sret' = results
  /\ serr' = CalcResult(Len(results), nerrors, stop)
  /\ UNCHANGED <<sizingRest, cancelled, jobs, subi, results, nerrors, swork,
                 stop, sheld>>

NextSizing ==
  \/ CalcEmpty
  \/ CalcCancel
  \/ CalcSubmit
  \/ CalcSubmitCancelled
  \/ CalcSubmitDone
  \/ \E w \in SizeWorkers : CalcTake(w)
  \/ \E w \in SizeWorkers : CalcFinish(w)
  \/ CalcReturn

SpecSizing == InitSizing /\ [][NextSizing]_vars

\* ------------------------------------------------------------------------
\* SpecMatch: one profiles.Loader asked about directories that change
\* ------------------------------------------------------------------------
\* the paths MatchProfile is called with, and the entries they may hold
MatchPaths == {<<"w", "app">>, <<"w", "ds">>}

MatchNodes == MatchPaths \cup {Append(d, n) : d \in MatchPaths, n \in {"pj", "f"}}

POther ==
  [Name |-> "Other", Patterns |-> << <<"l", "i", "b">> >>,
   Detect |-> << <<"f">> >>, Enabled |-> TRUE]

PGlob ==
  [Name |-> "Glob", Patterns |-> << <<"n", "m">> >>,
   Detect |-> << <<"?", "j">> >>, Enabled |-> TRUE]

\* the profile lists a loader may hold after LoadAll, in load order
ProfileLists ==
  { Profiles, <<Profiles[1]>>, <<Profiles[2], POther>>, <<POther, Profiles[2]>>,
    <<Profiles[1], PGlob, POther>> }

everythingButLoader ==
  <<coreVars, workerVars, histVars, cleanVars, sroots, sopts, spc, sri, wstack,
    ptargets, stargets, gone, jobs, subi, results, nerrors, swork, stop, sret,
    serr, cancelAt, asyncVars, cleanAsyncVars, cmdVars, plugins, libVars>>

InitMatch ==
  /\ InitCore /\ InitWorkers /\ InitHist /\ InitCleanIdle /\ InitScanIdle
  /\ InitAsyncIdle /\ InitCleanAsyncIdle /\ InitCmdIdle
  /\ plugins = <<>>
  /\ InitLibIdle
  /\ lprofiles \in ProfileLists
  /\ fsys \in [MatchNodes -> {"none", "file", "dir"}]
  /\ \A n \in MatchNodes :
       IF n \in MatchPaths THEN fsys[n] = "dir" ELSE fsys[n] # "dir"
  /\ mcalls = 0
  /\ fschanges = 0
  /\ seen = [d \in DirNodes |-> -1]
  /\ lastMatch = NoMatch

\* an entry is created, removed or replaced; what lay beneath it is gone
FsSet(n, k) ==
  /\ fschanges < MaxFsChanges
  /\ fschanges' = fschanges + 1
  /\ k # fsys[n]
  /\ n \notin MatchPaths => (k # "dir" /\ fsys[Dir(n)] = "dir")
  /\ fsys' = [m \in MatchNodes |->
                IF m = n THEN k ELSE IF Beneath(n, m) THEN "none" ELSE fsys[m]]
  /\ UNCHANGED <<everythingButLoader, matchCache, lprofiles, mcalls, seen,
                 lastMatch>>

\* l.MatchProfile(d)
MatchCall(d) ==
  /\ mcalls < MaxMatchCalls
  /\ mcalls' = mcalls + 1
  /\ LET r == MatchProfileIn(lprofiles, fsys, matchCache, d)
     IN  /\ matchCache' = r.cache
         /\ lastMatch' = [dir |-> d, prof |-> r.prof, err |-> r.err,
                          stats |-> r.stats, before |-> seen[d]]
         /\ seen' = IF fsys[d] = "dir" \/ seen[d] # -1
                      THEN [seen EXCEPT ![d] = r.prof] ELSE seen
  /\ UNCHANGED <<everythingButLoader, lprofiles, fsys, fschanges>>

\* l.ClearCache()
ClearCache ==
  /\ matchCache' = [d \in DirNodes |-> -1]
  /\ seen' = [d \in DirNodes |-> -1]
  /\ UNCHANGED <<everythingButLoader, lprofiles, fsys, mcalls, fschanges,
                 lastMatch>>

NextMatch ==
  \/ \E n \in MatchNodes, k \in {"none", "file", "dir"} : FsSet(n, k)
  \/ \E d \in MatchPaths : MatchCall(d)
  \/ ClearCache

SpecMatch == InitMatch /\ [][NextMatch]_vars

\* ------------------------------------------------------------------------
\* SpecAsync: one call of Scanner.ScanAsync and the consumer of its channel
\* ------------------------------------------------------------------------
\* make(chan types.Target, 100)
TargetChanCap == 100

\* make(chan string, workers*2)
JobsCap == Cardinality(ScanWorkers) * 2

scanOtherVars ==
  <<sroots, sopts, spc, sri, wstack, ptargets, stargets, gone, jobs, subi,
    results, nerrors, swork, stop, sret, serr, cancelAt>>

everythingButAsync ==
  <<coreVars, workerVars, histVars, cleanVars, loaderVars, scanOtherVars,
    cleanAsyncVars, cmdVars, plugins, libVars>>

\* the root lists of an asynchronous scan: distinct roots, outer directories
\* before the directories nested deeper
AsyncRootLists ==
  {rs \in RootLists :
     \A i, j \in 1 .. Len(rs) :
        i < j => (rs[i] # rs[j] /\ Len(rs[i]) <= Len(rs[j]))}

InitAsync ==
  /\ InitCore /\ InitWorkers /\ InitHist /\ InitCleanIdle /\ InitLoaderIdle
  /\ sroots \in AsyncRootLists
  /\ sopts \in OptionChoices
  /\ spc = "idle"
  /\ InitScanRest
  /\ InitAsyncIdle
  /\ InitCleanAsyncIdle
  /\ InitCmdIdle
  /\ plugins = <<>>
  /\ InitLibIdle

\* ScanAsync, lines 39-46: the select sends the next path to the pool
ASubmit ==
  /\ ~aclosed
  /\ asub <= Len(sroots)
  /\ Len(ajobs) < JobsCap
  /\ ajobs' = Append(ajobs, sroots[asub])
  /\ asub' = asub + 1
  /\ UNCHANGED <<everythingButAsync, matchCache, aclosed, apc, aroot, astack,
                 afound, tchan, tclosed, received>>

\* ScanAsync, line 49: close(pool.jobs)
ACloseJobs ==
  /\ ~aclosed
  /\ asub > Len(sroots)
  /\ aclosed' = TRUE
  /\ UNCHANGED <<everythingButAsync, matchCache, ajobs, asub, apc, aroot,
                 astack, afound, tchan, tclosed, received>>

\* ScanAsync, lines 50 and 23-24: the workers are done, the channels close
AFinish ==
  /\ aclosed
  /\ ~tclosed
  /\ \A w \in ScanWorkers : apc[w] = "exit"
  /\ tclosed' = TRUE
  /\ UNCHANGED <<everythingButAsync, matchCache, ajobs, asub, aclosed, apc,
                 aroot, astack, afound, tchan, received>>

\* worker, lines 87-96, scanPathAsync, lines 118-131: a worker takes a path
\* from the pool and looks at the root itself
WTake(w) ==
  /\ apc[w] = "idle"
  /\ ajobs # <<>>
  /\ ajobs' = Tail(ajobs)
  /\ LET rm == RootMatchAsync(matchCache, Head(ajobs))
     IN  /\ matchCache' = rm.cache
         /\ afound' = [afound EXCEPT ![w] = rm.emit]
  /\ aroot' = [aroot EXCEPT ![w] = Head(ajobs)]
  /\ astack' = [astack EXCEPT ![w] = <<Head(ajobs)>>]
  /\ apc' = [apc EXCEPT ![w] = "walk"]
  /\ UNCHANGED <<everythingButAsync, asub, aclosed, tchan, tclosed, received>>

\* scanPathAsync, lines 134-221: WalkDir visits the next entry; a target is
\* appended to the local slice; after the last entry scanPathAsync returns
WWalk(w) ==
  /\ apc[w] = "walk"
  /\ LET v == VisitAsync(matchCache, aroot[w], sopts, Head(astack[w]))
         rest == WalkRest(astack[w], v.ret)
     IN  /\ matchCache' = v.cache
         /\ afound' = [afound EXCEPT ![w] = @ \o v.emit]
         /\ astack' = [astack EXCEPT ![w] = rest]
         /\ apc' = [apc EXCEPT ![w] = IF rest = <<>> THEN "send" ELSE "walk"]
  /\ UNCHANGED <<everythingButAsync, ajobs, asub, aclosed, aroot, tchan,
                 tclosed, received>>

\* worker, lines 106-112: the next target of the returned slice is sent
WSend(w) ==
  /\ apc[w] = "send"
  /\ afound[w] # <<>>
  /\ Len(tchan) < TargetChanCap
  /\ tchan' = Append(tchan, Head(afound[w]))
  /\ afound' = [afound EXCEPT ![w] = Tail(@)]
  /\ UNCHANGED <<everythingButAsync, matchCache, ajobs, asub, aclosed, apc,
                 aroot, astack, tclosed, received>>

\* worker, line 113: all targets sent, back to the range over pool.jobs
WSendDone(w) ==
  /\ apc[w] = "send"
  /\ afound[w] = <<>>
  /\ apc' = [apc EXCEPT ![w] = "idle"]
  /\ UNCHANGED <<everythingButAsync, matchCache, ajobs, asub, aclosed, aroot,
                 astack, afound, tchan, tclosed, received>>

\* worker, lines 85-87: pool.jobs is closed and drained, the worker returns
WExit(w) ==
  /\ apc[w] = "idle"
  /\ ajobs = <<>>
  /\ aclosed
  /\ apc' = [apc EXCEPT ![w] = "exit"]
  /\ UNCHANGED <<everythingButAsync, matchCache, ajobs, asub, aclosed, aroot,
                 astack, afound, tchan, tclosed, received>>

\* the consumer receives the next target
ARecv ==
  /\ tchan # <<>>
  /\ received' = received (+) SetToBag({Head(tchan)})
  /\ tchan' = Tail(tchan)
  /\ UNCHANGED <<everythingButAsync, matchCache, ajobs, asub, aclosed, apc,
                 aroot, astack, afound, tclosed>>

NextAsync ==
  \/ ASubmit
  \/ ACloseJobs
  \/ AFinish
  \/ \E w \in ScanWorkers : WTake(w)
  \/ \E w \in ScanWorkers : WWalk(w)
  \/ \E w \in ScanWorkers : WSend(w)
  \/ \E w \in ScanWorkers : WSendDone(w)
  \/ \E w \in ScanWorkers : WExit(w)
  \/ ARecv

SpecAsync == InitAsync /\ [][NextAsync]_vars

\* ------------------------------------------------------------------------
\* SpecAsyncCancel: one call of Scanner.ScanAsync whose context may be
\* cancelled, with the consumer of its two channels
\* ------------------------------------------------------------------------
asyncCancelRest ==
  <<coreVars, workerVars, histVars, ctargets, useTrash, roParents, cpc, cidx,
    report, cerr, cmissing, loaderVars, scanOtherVars, cleanAsyncVars,
    cmdVars, plugins, calcFS, calcPath, calcRes, loadDir, loadRes, regVars,
    sheld, cbegun, tuiVars>>

\* a send on a closed channel panics and the process ends
NoPanic == \A w \in ScanWorkers : apc[w] # "panic"

\* the caller cancels the context
XCancel ==
  /\ NoPanic
  /\ ~cancelled
  /\ acoord # "done"
  /\ cancelled' = TRUE
  /\ UNCHANGED <<asyncCancelRest, asyncVars, matchCache, coordVars>>

\* ScanAsync, lines 39-46: the select sends the next path to the pool
XSubmit ==
  /\ NoPanic
  /\ acoord = "submit"
  /\ asub <= Len(sroots)
  /\ Len(ajobs) < JobsCap
  /\ ajobs' = Append(ajobs, sroots[asub])
  /\ asub' = asub + 1
  /\ UNCHANGED <<asyncCancelRest, cancelled, matchCache, aclosed, apc, aroot,
                 astack, afound, tchan, tclosed, received, coordVars>>

\* ScanAsync, lines 40-43: the select takes the done context, the error is
\* sent and the goroutine returns, the pool left as it is
XSubmitCancelled ==
  /\ NoPanic
  /\ acoord = "submit"
  /\ asub <= Len(sroots)
  /\ cancelled
  /\ echan' = Append(echan, Canceled)
  /\ acoord' = "closing"
  /\ UNCHANGED <<asyncCancelRest, cancelled, matchCache, asyncVars, eclosed>>

\* ScanAsync, lines 49-50: every path is sent, pool.jobs is closed
XCloseJobs ==
  /\ NoPanic
  /\ acoord = "submit"
  /\ asub > Len(sroots)
  /\ aclosed' = TRUE
  /\ acoord' = "wait"
  /\ UNCHANGED <<asyncCancelRest, cancelled, matchCache, ajobs, asub, apc,
                 aroot, astack, afound, tchan, tclosed, received, echan,
                 eclosed>>

\* ScanAsync, line 50: pool.wg.Wait() returns once every worker has
XWaitDone ==
  /\ NoPanic
  /\ acoord = "wait"
  /\ \A w \in ScanWorkers : apc[w] = "exit"
  /\ acoord' = "closing"
  /\ UNCHANGED <<asyncCancelRest, cancelled, matchCache, asyncVars, echan,
                 eclosed>>

\* ScanAsync, line 24: the deferred close(errorChan) runs first
XCloseErrors ==
  /\ NoPanic
  /\ acoord = "closing"
  /\ ~eclosed
  /\ eclosed' = TRUE
  /\ UNCHANGED <<asyncCancelRest, cancelled, matchCache, asyncVars, acoord,
                 echan>>

\* ScanAsync, line 23: the deferred close(targetChan)
XCloseTargets ==
  /\ NoPanic
  /\ acoord = "closing"
  /\ eclosed
  /\ tclosed' = TRUE
  /\ acoord' = "done"
  /\ UNCHANGED <<asyncCancelRest, cancelled, matchCache, ajobs, asub, aclosed,
                 apc, aroot, astack, afound, tchan, received, echan, eclosed>>

\* worker, lines 87-96, scanPathAsync, lines 118-131: a worker receives a
\* path; it returns when the context is done, else it looks at the root
XTake(w) ==
  /\ NoPanic
  /\ apc[w] = "idle"
  /\ ajobs # <<>>
  /\ ajobs' = Tail(ajobs)
  /\ IF cancelled
       THEN /\ apc' = [apc EXCEPT ![w] = "exit"]
            /\ UNCHANGED <<matchCache, afound, aroot, astack>>
       ELSE /\ LET rm == RootMatchAsync(matchCache, Head(ajobs))
               IN  /\ matchCache' = rm.cache
                   /\ afound' = [afound EXCEPT ![w] = rm.emit]
            /\ aroot' = [aroot EXCEPT ![w] = Head(ajobs)]
            /\ astack' = [astack EXCEPT ![w] = <<Head(ajobs)>>]
            /\ apc' = [apc EXCEPT ![w] = "walk"]
  /\ UNCHANGED <<asyncCancelRest, cancelled, asub, aclosed, tchan, tclosed,
                 received, coordVars>>

\* scanPathAsync, lines 134-221: WalkDir visits the next entry; when the
\* callback finds the context done the walk stops with context.Canceled and
\* scanPathAsync returns the targets found so far and a nil error
XWalk(w) ==
  /\ NoPanic
  /\ apc[w] = "walk"
  /\ IF cancelled
       THEN /\ astack' = [astack EXCEPT ![w] = <<>>]
            /\ apc' = [apc EXCEPT ![w] = "send"]
            /\ UNCHANGED <<matchCache, afound>>
       ELSE LET v == VisitAsync(matchCache, aroot[w], sopts, Head(astack[w]))
                rest == WalkRest(astack[w], v.ret)
            IN  /\ matchCache' = v.cache
                /\ afound' = [afound EXCEPT ![w] = @ \o v.emit]
                /\ astack' = [astack EXCEPT ![w] = rest]
                /\ apc' = [apc EXCEPT
                             ![w] = IF rest = <<>> THEN "send" ELSE "walk"]
  /\ UNCHANGED <<asyncCancelRest, cancelled, ajobs, asub, aclosed, aroot,
                 tchan, tclosed, received, coordVars>>

\* worker, lines 106-112: the select over the send of the next target and
\* the done context takes one of the cases that are ready; the send is
\* ready when the channel has room, and also when the channel is closed,
\* where it panics
XSend(w) ==
  /\ NoPanic
  /\ apc[w] = "send"
  /\ afound[w] # <<>>
  /\ \/ /\ tclosed
        /\ apc' = [apc EXCEPT ![w] = "panic"]
        /\ UNCHANGED <<tchan, afound>>
     \/ /\ ~tclosed
        /\ Len(tchan) < TargetChanCap
        /\ tchan' = Append(tchan, Head(afound[w]))
        /\ afound' = [afound EXCEPT ![w] = Tail(@)]
        /\ UNCHANGED apc
     \/ /\ cancelled
        /\ apc' = [apc EXCEPT ![w] = "exit"]
        /\ UNCHANGED <<tchan, afound>>
  /\ UNCHANGED <<asyncCancelRest, cancelled, matchCache, ajobs, asub, aclosed,
                 aroot, astack, tclosed, received, coordVars>>

\* worker, line 113: all targets sent, back to the range over pool.jobs
XSendDone(w) ==
  /\ NoPanic
  /\ apc[w] = "send"
  /\ afound[w] = <<>>
  /\ apc' = [apc EXCEPT ![w] = "idle"]
  /\ UNCHANGED <<asyncCancelRest, cancelled, matchCache, ajobs, asub, aclosed,
                 aroot, astack, afound, tchan, tclosed, received, coordVars>>

\* worker, lines 85-87: pool.jobs is closed and drained, the worker returns
XExit(w) ==
  /\ NoPanic
  /\ apc[w] = "idle"
  /\ ajobs = <<>>
  /\ aclosed
  /\ apc' = [apc EXCEPT ![w] = "exit"]
  /\ UNCHANGED <<asyncCancelRest, cancelled, matchCache, ajobs, asub, aclosed,
                 aroot, astack, afound, tchan, tclosed, received, coordVars>>

\* the consumer receives the next target
XRecv ==
  /\ NoPanic
  /\ tchan # <<>>
  /\ received' = received (+) SetToBag({Head(tchan)})
  /\ tchan' = Tail(tchan)
  /\ UNCHANGED <<asyncCancelRest, cancelled, matchCache, ajobs, asub, aclosed,
                 apc, aroot, astack, afound, tclosed, coordVars>>

\* the consumer receives the next error
XRecvError ==
  /\ NoPanic
  /\ echan # <<>>
  /\ echan' = Tail(echan)
  /\ UNCHANGED <<asyncCancelRest, cancelled, matchCache, asyncVars, acoord,
                 eclosed>>

\* the goroutine started by ScanAsync
XCoordinator ==
  \/ XSubmit
  \/ XSubmitCancelled
  \/ XCloseJobs
  \/ XWaitDone
  \/ XCloseErrors
  \/ XCloseTargets

\* a goroutine of the pool
XWorker(w) ==
  \/ XTake(w)
  \/ XWalk(w)
  \/ XSend(w)
  \/ XSendDone(w)
  \/ XExit(w)

NextAsyncCancel ==
  \/ XCancel
  \/ XCoordinator
  \/ \E w \in ScanWorkers : XWorker(w)
  \/ XRecv
  \/ XRecvError

\* ScanAsync is called: any of the root lists, walks with or without a
\* depth limit
InitAsyncCancel ==
  /\ InitAsync
  /\ sopts.IgnorePaths = <<>>
  /\ ~sopts.IncludeHidden

SpecAsyncCancel == InitAsyncCancel /\ [][NextAsyncCancel]_vars

\* every goroutine that can take a step eventually does, and the consumer
\* keeps receiving
SpecAsyncCancelFair ==
  /\ SpecAsyncCancel
  /\ WF_vars(XCoordinator)
  /\ \A w \in ScanWorkers : WF_vars(XWorker(w))
  /\ WF_vars(XRecv)
  /\ WF_vars(XRecvError)

\* ------------------------------------------------------------------------
\* SpecTui: the interactive program, from NewTUIModel until it quits
\* ------------------------------------------------------------------------
\* the most targets a scan hands to the selection screen
MaxShown == 2

tuiRest ==
  <<coreVars, workerVars, histVars, cleanVars, scanVars, loaderVars,
    asyncVars, cleanAsyncVars, cmdVars, plugins, calcFS, calcPath, calcRes,
    loadDir, loadRes, regVars, sheld, cbegun, coordVars>>

\* msg.String() of the keys the handlers tell apart ("ctrl+c" is handled as
\* "q", "k" as "up", "j" as "down" everywhere), and one other key
Keys == {"q", "up", "down", " ", "a", "n", "enter", "y", "x"}

\* hasSelection: some entry of m.selected is true
hasSelection(sel) == sel # {}

\* startClean, lines 69-75: the targets whose index is selected
selectedTargets(n, sel) == {i \in 0 .. n - 1 : i \in sel}

\* Init: the scan command is started
TInit ==
  /\ tlast = "new"
  /\ trun' = "scan"
  /\ tlast' = "init"
  /\ UNCHANGED <<tuiRest, tscreen, tn, tselected, tcursor, tquit, tcleaned>>

\* handleScanningKeys, handleCleaningKeys
TKeyBusy(key) ==
  /\ tscreen \in {"Scanning", "Cleaning"}
  /\ tquit' = (key = "q")
  /\ UNCHANGED <<tscreen, tn, tselected, tcursor, trun, tcleaned>>

\* handleSummaryKeys
TKeySummary(key) ==
  /\ tscreen = "Summary"
  /\ tquit' = (key \in {"q", "enter"})
  /\ UNCHANGED <<tscreen, tn, tselected, tcursor, trun, tcleaned>>

\* handleSelectionKeys
TKeySelection(key) ==
  /\ tscreen = "Selection"
  /\ tquit' = (key = "q")
  /\ tcursor' = CASE key = "up" /\ tcursor > 0 -> tcursor - 1
                  [] key = "down" /\ tcursor < tn - 1 -> tcursor + 1
                  [] OTHER -> tcursor
  /\ tselected' = CASE key = " " -> IF tcursor \in tselected
                                      THEN tselected \ {tcursor}
                                      ELSE tselected \cup {tcursor}
                    [] key = "a" -> tselected \cup (0 .. tn - 1)
                    [] key = "n" -> {}
                    [] OTHER -> tselected
  /\ tscreen' = IF key = "enter" /\ hasSelection(tselected)
                  THEN "Confirmation" ELSE "Selection"
  /\ UNCHANGED <<tn, trun, tcleaned>>

\* handleConfirmationKeys
TKeyConfirmation(key) ==
  /\ tscreen = "Confirmation"
  /\ tscreen' = CASE key \in {"q", "n"} -> "Selection"
                  [] key \in {"y", "enter"} -> "Cleaning"
                  [] OTHER -> "Confirmation"
  /\ trun' = IF key \in {"y", "enter"} THEN "clean" ELSE trun
  /\ UNCHANGED <<tn, tselected, tcursor, tquit, tcleaned>>

\* Update, tea.KeyMsg: handleKeyPress
TKey(key) ==
  /\ tlast # "new"
  /\ ~tquit
  /\ \/ TKeyBusy(key)
     \/ TKeySummary(key)
     \/ TKeySelection(key)
     \/ TKeyConfirmation(key)
  /\ tlast' = key
  /\ UNCHANGED tuiRest

\* startScan returns scanCompleteMsg; Update shows the selection screen
TScanComplete(n) ==
  /\ ~tquit
  /\ trun = "scan"
  /\ trun' = "none"
  /\ tn' = n
  /\ tscreen' = "Selection"
  /\ tlast' = "scanCompleteMsg"
  /\ UNCHANGED <<tuiRest, tselected, tcursor, tquit, tcleaned>>

\* startScan returns scanErrorMsg; Update quits
TScanError ==
  /\ ~tquit
  /\ trun = "scan"
  /\ trun' = "none"
  /\ tquit' = TRUE
  /\ tlast' = "scanErrorMsg"
  /\ UNCHANGED <<tuiRest, tscreen, tn, tselected, tcursor, tcleaned>>

\* startClean, lines 67-90: without a selected target the command returns
\* cleanErrorMsg, else it calls Cleaner.Clean on the selected targets
TStartClean ==
  /\ ~tquit
  /\ trun = "clean"
  /\ IF selectedTargets(tn, tselected) = {}
       THEN /\ trun' = "cleanErrorMsg"
            /\ UNCHANGED tcleaned
       ELSE /\ tcleaned' = Append(tcleaned, selectedTargets(tn, tselected))
            /\ trun' \in {"cleanErrorMsg", "cleanCompleteMsg"}
  /\ tlast' = "startClean"
  /\ UNCHANGED <<tuiRest, tscreen, tn, tselected, tcursor, tquit>>

\* Update, cleanCompleteMsg and cleanErrorMsg
TCleanMsg ==
  /\ ~tquit
  /\ trun \in {"cleanErrorMsg", "cleanCompleteMsg"}
  /\ IF trun = "cleanCompleteMsg"
       THEN tscreen' = "Summary" /\ UNCHANGED tquit
       ELSE tquit' = TRUE /\ UNCHANGED tscreen
  /\ tlast' = trun
  /\ trun' = "none"
  /\ UNCHANGED <<tuiRest, tn, tselected, tcursor, tcleaned>>

NextTui ==
  \/ TInit
  \/ \E key \in Keys : TKey(key)
  \/ \E n \in 0 .. MaxShown : TScanComplete(n)
  \/ TScanError
  \/ TStartClean
  \/ TCleanMsg

InitTui ==
  /\ InitCore /\ InitWorkers /\ InitHist /\ InitCleanIdle /\ InitScanIdle
  /\ InitExtIdle

SpecTui == InitTui /\ [][NextTui]_vars

\* ------------------------------------------------------------------------
\* Claims about the trash under concurrent workers (SpecTrash)
\* ------------------------------------------------------------------------
\* the trash item ids Restore can still return: listed, with content
Restorable(tr) == {id \in List(tr) : tr[id].content.kind # "none"}

\* C1: no irrecoverable data loss in trash mode: the content of every target
\* is, at all times, either at its original path or the content of a trash
\* item that List reports and Restore can return.
C1_NoDataLoss ==
  faults = 0 =>
    \A t \in TargetIds :
      \/ disk[TargetPath[t]] = Content(t)
      \/ \E id \in Restorable(trash) : trash[id].content = Content(t)

InFlight(w) == wpc[w] # "idle"

\* C3: Moves of distinct target paths that run concurrently have pairwise
\* distinct ids (each has its own item directory), also when the targets
\* share a basename and the Moves start within the same clock second.
C3_ConcurrentIdsDistinct ==
  \A w1, w2 \in Workers :
    (w1 # w2 /\ InFlight(w1) /\ InFlight(w2)
       /\ TargetPath[wtgt[w1]] # TargetPath[wtgt[w2]])
      => wid[w1] # wid[w2]

\* no Move is working on the item directory of id
Quiescent(id) == \A w \in Workers : InFlight(w) => wid[w] # id

\* C4: Move is all-or-nothing: once every Move on an item directory has
\* returned, successfully or with an error at any step, the directory does
\* not hold metadata without content nor content without metadata.
C4_MoveAllOrNothing ==
  \A id \in Ids :
    Quiescent(id) =>
      (trash[id].meta.state # "none" <=> trash[id].content.kind # "none")

\* ------------------------------------------------------------------------
\* Claims about Move and Restore called one after the other (SpecSeq)
\* ------------------------------------------------------------------------
\* the step is the return of a Restore(id)
RestoreReturns(id) ==
  /\ lastOp'.op = "restore"
  /\ lastOp'.id = id
  /\ calls' = calls + 1

\* C2: round trip: when Move(target) has returned id and the next call is
\* Restore(id), with the original path still free and no syscall failing,
\* Restore succeeds, the path holds again what it held when Move was called
\* (same kind, same nested files, same byte size), the item directory of id
\* is gone and GetMetadata(id) fails.
C2_RoundTrip ==
  [][(/\ lastOp.op = "move" /\ lastOp.err = Nil
      /\ RestoreReturns(lastOp.id)
      /\ ~Exists(disk, TargetPath[lastOp.target])
      /\ faults' = faults)
     => (/\ lastOp'.err = Nil
         /\ disk'[TargetPath[lastOp.target]] = lastOp.before
         /\ ~trash'[lastOp.id].exists
         /\ GetMetadata(trash', lastOp.id).err # Nil)]_vars

\* a target was moved and restored by the next call, and is back in place
C2_Witness ==
  /\ lastOp.op = "restore" /\ lastOp.err = Nil /\ lastOp.after
  /\ lastOp.before.kind = "dir" /\ lastOp.before.files # {}
  /\ disk[TargetPath[lastOp.target]] = lastOp.before
  /\ ~trash[lastOp.id].exists

\* C10: Restore refuses on conflict without side effects: when the original
\* path of a trashed item exists, Restore(id) returns an error, what lies at
\* the original path stays as it is, and the item directory keeps its
\* metadata and content.
C10_RestoreConflict ==
  [][\A id \in Ids :
       (/\ RestoreReturns(id)
        /\ GetMetadata(trash, id).err = Nil
        /\ Exists(disk, GetMetadata(trash, id).meta.OriginalPath))
       => (/\ lastOp'.err # Nil
           /\ disk' = disk
           /\ trash' = trash)]_vars

\* a Restore was refused: the new file is at the path, the item in the trash
C10_Witness ==
  /\ lastOp.op = "restore" /\ lastOp.err = "path already exists"
  /\ lastOp.id \in Restorable(trash)
  /\ disk[trash[lastOp.id].meta.OriginalPath] = NewContent

\* ------------------------------------------------------------------------
\* Claims about Cleaner.Clean (SpecClean)
\* ------------------------------------------------------------------------
RECURSIVE SumSizes(_)
SumSizes(ts) == IF ts = <<>> THEN 0 ELSE TargetSize[Head(ts)] + SumSizes(Tail(ts))

\* the targets of the list whose path had been removed before the call
GoneAt == {i \in 1 .. Len(ctargets) : ctargets[i] \in cmissing}

\* the list without its i-th entry
Without(ts, i) == SubSeq(ts, 1, i - 1) \o SubSeq(ts, i + 1, Len(ts))

\* Clean ran to its end on a list of distinct targets of which exactly one
\* had been removed externally, in trash mode, with writable parents, no
\* failing syscall and no cancellation
C6_Scenario ==
  /\ cpc = "done"
  /\ useTrash
  /\ ~cancelled
  /\ faults = 0
  /\ roParents = {}
  /\ Cardinality(Range(ctargets)) = Len(ctargets)
  /\ Cardinality(GoneAt) = 1

\* C6: per-target error isolation: in that scenario the removed target is
\* the only entry of report.Errors, as a not-found error, every other target
\* is cleaned (FilesDeleted, TotalSize and one trash id per cleaned target),
\* and Clean returns nil.
C6_ErrorIsolation ==
  C6_Scenario =>
    LET i == CHOOSE j \in GoneAt : TRUE
        others == Without(ctargets, i)
    IN  /\ cerr = Nil
        /\ report.Errors = <<CleanError(ctargets[i], "path does not exist")>>
        /\ report.FilesDeleted = Len(others)
        /\ report.TotalSize = SumSizes(others)
        /\ Len(report.TrashedItems) = Len(others)
        /\ Cardinality(Range(report.TrashedItems)) = Len(others)

\* C7: Clean returns a non-nil error only when the context was cancelled;
\* when it returns nil, every target of the list was processed (counted as
\* deleted or listed in Errors), whatever failed for individual targets.
C7_OnlyCancellationIsFatal ==
  cpc = "done" =>
    /\ cerr # Nil => (cancelled /\ cerr = "context canceled")
    /\ cerr = Nil => report.FilesDeleted + Len(report.Errors) = Len(ctargets)

\* the trash move of the first of three targets failed and the two later
\* targets were cleaned, with a nil return
C7_Witness ==
  /\ cpc = "done" /\ cerr = Nil /\ ~cancelled
  /\ Len(ctargets) = 3
  /\ report.Errors = <<CleanError(ctargets[1], "failed to move to trash")>>
  /\ report.FilesDeleted = 2

\* ------------------------------------------------------------------------
\* Claims about Scanner.Scan (SpecScan)
\* ------------------------------------------------------------------------
\* C5: pruning invariant: no target path returned by a Scan call lies
\* beneath another target path returned by the same call.
C5_PruningInvariant ==
  (spc = "done" /\ serr = NoErr) =>
    \A i, j \in 1 .. Len(sret) : ~Beneath(sret[i].Path, sret[j].Path)

\* errors.Is(err, context.Canceled)
IsCanceled(err) == err # NoErr /\ err[Len(err)] = "context canceled"

\* C8: cancellation propagates out of Scan: when the context was cancelled
\* during the directory walk of a root or during the sizing pass, while
\* entries or targets were still to be handled, Scan returns the
\* cancellation error.
C8_CancellationPropagates ==
  (spc = "done" /\ cancelAt \in {"walk", "submit"}) => IsCanceled(serr)

\* C9: size failures are isolated: a Scan whose context was not cancelled
\* returns no error, whatever targets failed to be sized, and every target
\* that did not vanish has its size populated.
C9_SizeFailuresIsolated ==
  (spc = "done" /\ ~cancelled) =>
    /\ serr = NoErr
    /\ \A i \in 1 .. Len(sret) :
         (\A g \in gone : ~IsPrefix(g, sret[i].Path) /\ ~IsPrefix(sret[i].Path, g))
           => sret[i].Size = Calculate({}, sret[i].Path).size

\* ------------------------------------------------------------------------
\* Claims about the life of a trash item (SpecSeq)
\* ------------------------------------------------------------------------
\* Active: metadata and content are both present
Active(tr, id) ==
  tr[id].exists /\ tr[id].meta.state = "ok" /\ tr[id].content.kind # "none"

Terminal == {"restored", "purged"}

\* C11: trash item life cycle: an item that Move created stays Active (with
\* metadata and content) until a successful Restore puts its content back at
\* the original path or a purge removes it; a restored or purged item has
\* neither metadata nor content left, is not listed, stays restored or
\* purged, and a later Restore(id) returns an error and changes nothing.
C11_LifeCycle ==
  [][\A id \in Ids :
       /\ life'[id] = "active" => Active(trash', id)
       /\ life'[id] \in Terminal =>
            (~trash'[id].exists /\ id \notin List(trash'))
       /\ life[id] \in Terminal => life'[id] = life[id]
       /\ (life[id] \in Terminal /\ RestoreReturns(id)) =>
            (lastOp'.err # Nil /\ disk' = disk /\ trash' = trash)
       /\ (life[id] = "active" /\ life'[id] = "restored") =>
            disk'[trash[id].meta.OriginalPath] = trash[id].content]_vars

\* the step is the return of Clean(ret) with no removal failing
PurgeReturns(ret) ==
  /\ lastOp'.op = "purge"
  /\ lastOp'.ret = ret
  /\ calls' = calls + 1
  /\ faults' = faults

\* C12: retention boundary: Clean(0) called at any time at or after the
\* item's deletion time removes it, and Clean(ret) removes an item exactly
\* when its deletion time is older than now - ret.
C12_RetentionBoundary ==
  [][\A id \in Ids, ret \in Retentions :
       (PurgeReturns(ret) /\ Active(trash, id) /\ trash[id].meta.ID = id) =>
         LET T == trash[id].meta.DeletedAt
         IN  /\ (ret = 0 /\ now >= T) => ~trash'[id].exists
             /\ ~trash'[id].exists <=> (T < now - ret \/ (ret = 0 /\ now >= T))]_vars

\* ------------------------------------------------------------------------
\* Claims about profiles.Loader.MatchProfile (SpecMatch)
\* ------------------------------------------------------------------------
\* the step is the return of MatchProfile(d)
MatchReturns(d) == lastMatch'.dir = d /\ mcalls' = mcalls + 1

\* C13: match cache: when MatchProfile(d) was called on the directory d
\* before, with no ClearCache() since, the call touches no file and returns
\* what the earlier call returned, a profile or "no match", whatever became
\* of the filesystem; the first call after ClearCache() evaluates the
\* filesystem.
C13_MatchCache ==
  [][\A d \in MatchPaths :
       MatchReturns(d) =>
         /\ seen[d] # -1 =>
              (lastMatch'.prof = seen[d] /\ lastMatch'.stats = 0)
         /\ seen[d] = -1 => lastMatch'.stats > 0]_vars

\* a cached "no match" was returned although the directory has a hit by now
C13_Witness ==
  /\ lastMatch.before = NoProfile
  /\ lastMatch.prof = NoProfile
  /\ lastMatch.stats = 0
  /\ lastMatch.dir \in MatchPaths
  /\ KindAt(fsys, lastMatch.dir) = "dir"
  /\ MatchProfileLoop(lprofiles, fsys, lastMatch.dir, 1) # NoProfile

\* the enabled profiles with a detect hit in d
EnabledHits(d) ==
  {i \in 1 .. Len(lprofiles) :
     lprofiles[i].Enabled /\ matchesDetectPatternsIn(fsys, d, lprofiles[i].Detect)}

\* C14: MatchProfile(dirPath), evaluating a directory, returns the first
\* profile in load order that is enabled and has a detect hit, and no match
\* when no enabled profile has a hit; it never returns a disabled profile.
C14_FirstEnabledMatch ==
  [][\A d \in MatchPaths :
       MatchReturns(d) =>
         /\ lastMatch'.prof # NoProfile => lprofiles[lastMatch'.prof].Enabled
         /\ (seen[d] = -1 /\ fsys[d] = "dir") =>
              IF EnabledHits(d) = {}
                THEN lastMatch'.prof = NoProfile
                ELSE /\ lastMatch'.prof \in EnabledHits(d)
                     /\ \A j \in EnabledHits(d) : lastMatch'.prof <= j]_vars

\* the second of two enabled profiles with a hit was passed over for the
\* first, which itself comes after a disabled profile with a hit
C14_Witness ==
  /\ lastMatch.before = -1
  /\ lastMatch.prof = 2
  /\ lastMatch.dir \in MatchPaths
  /\ ~lprofiles[1].Enabled
  /\ matchesDetectPatternsIn(fsys, lastMatch.dir, lprofiles[1].Detect)
  /\ Cardinality(EnabledHits(lastMatch.dir)) = 2

\* ------------------------------------------------------------------------
\* Claims about Scanner.ScanAsync (SpecAsync)
\* ------------------------------------------------------------------------
\* the paths, with their profile names, of a list of targets
PathsOf(ts) == {<<t.Path, t.ProfileName>> : t \in ts}

\* C15: ScanAsync has the same semantics as Scan: once the target channel
\* is closed and drained, the set of target paths (with their profile
\* names) the consumer received equals the set of those Scan returns for the
\* same roots and options.
C15_AsyncSameAsScan ==
  (tclosed /\ tchan = <<>>) =>
    PathsOf(BagToSet(received))
      = PathsOf(Range(ScanRoots([d \in DirNodes |-> -1], sroots, sopts)))

\* two workers scanned overlapping roots and the consumer has everything
C15_Witness ==
  /\ tclosed /\ tchan = <<>>
  /\ Len(sroots) = 2 /\ Beneath(sroots[1], sroots[2])
  /\ BagCardinality(received) >= 3
  /\ \A w \in ScanWorkers : aroot[w] # <<>>

\* C16: ScanAsync emits targets incrementally: a target found during the
\* walk of a root is sent on the target channel when it is discovered, so
\* while the walk of the root goes on the target is in the channel or with
\* the consumer.
C16_EmitsWhenDiscovered ==
  \A w \in ScanWorkers :
    apc[w] = "walk" =>
      \A i \in 1 .. Len(afound[w]) :
        \/ \E j \in 1 .. Len(tchan) : tchan[j] = afound[w][i]
        \/ BagIn(afound[w][i], received)

\* ------------------------------------------------------------------------
\* CleanAsync
\* ------------------------------------------------------------------------
\* the consumer has received everything CleanAsync sent before closing
Drained == pclosed /\ pchan = <<>>

\* the events received so far (the consumer keeps every event it received):
\* each is the event of one job of the call, and no job is reported twice; at
\* the close every job was reported
ProgressWellFormed ==
  /\ \A k \in 1 .. Len(pevents) :
        /\ pevents[k].Total = Len(ctargets)
        /\ pevents[k].Current \in 1 .. Len(ctargets)
        /\ pevents[k].Target = ctargets[pevents[k].Current]
  /\ \A j, k \in 1 .. Len(pevents) :
        j # k => pevents[j].Current # pevents[k].Current
  /\ Drained => {pevents[k].Current : k \in 1 .. Len(pevents)}
                  = 1 .. Len(ctargets)

\* C17: CleanAsync emits exactly one progress event per input target, each
\* with Total = len(targets), and then closes the progress channel, whatever
\* the interleaving of the workers and also when the context is cancelled
\* part-way, provided the consumer keeps receiving.
C17_OneEventPerTarget == <>(Drained /\ ProgressWellFormed)

\* a call cancelled part-way: some targets cleaned, some reported cancelled
C17_Witness ==
  /\ Drained
  /\ cancelled
  /\ \E k \in 1 .. Len(pevents) : pevents[k].Error = "context canceled"
  /\ \E k \in 1 .. Len(pevents) : pevents[k].Error = Nil
  /\ Len(pevents) = Len(ctargets)

\* the directory tree CleanAsync was called on
InitialDisk ==
  [p \in Paths |->
     LET t == CHOOSE u \in TargetIds : TargetPath[u] = p
     IN  IF t \in cmissing THEN NoEntry ELSE Content(t)]

\* C18: folding CleanAsync's progress events into a CleanReport gives the
\* report of the synchronous Clean for the same targets, options and
\* filesystem: same FilesDeleted, same TotalSize, same set of per-target
\* errors, same list of trash ids (TrashedItems).
C18_FoldEqualsSyncReport ==
  (Drained /\ ~cancelled /\ faults = 0 /\ now = 0) =>
    LET folded == GenerateReportFromProgress(pevents)
        sync == CleanAll(InitialDisk, [id \in Ids |-> NoDir], roParents,
                         EmptyReport, ctargets, useTrash, 0)
    IN  /\ folded.FilesDeleted = sync.FilesDeleted
        /\ folded.TotalSize = sync.TotalSize
        /\ Range(folded.Errors) = Range(sync.Errors)
        /\ folded.TrashedItems = sync.TrashedItems

\* ------------------------------------------------------------------------
\* The commands
\* ------------------------------------------------------------------------
\* the step reports target t as cleaned: Clean counts it, or a worker of
\* CleanAsync sends its event without an error
CleanedNow(t) ==
  \/ /\ cpc = "loop"
     /\ cidx <= Len(ctargets)
     /\ ctargets[cidx] = t
     /\ report'.FilesDeleted = report.FilesDeleted + 1
  \/ /\ Len(qresults') = Len(qresults) + 1
     /\ qresults'[Len(qresults')].Target = t
     /\ qresults'[Len(qresults')].Error = Nil

\* the step moved what lay at t's path into a trash item
MovedToTrash(t) ==
  /\ Exists(disk, TargetPath[t])
  /\ ~Exists(disk', TargetPath[t])
  /\ \E id \in Ids : /\ trash'[id].exists
                     /\ trash'[id].content = disk[TargetPath[t]]
                     /\ trash'[id].meta.state = "ok"

\* C19: permanent deletion is gated behind explicit opt-in: the clean command
\* and the TUI pass UseTrash = false to the cleaner only when the user set
\* --no-trash; in every other run each successfully cleaned target has been
\* moved into the trash, never removed directly.
C19_PermanentDeletionGated ==
  [][ /\ (cmdpc' = "cleaning" /\ ~useTrash') => (entry' = "clean" /\ noTrash')
      /\ \A t \in TargetIds :
            (CleanedNow(t) /\ ~(entry = "clean" /\ noTrash)) => MovedToTrash(t)
    ]_vars

\* both commands cleaned a target without --no-trash, and it is in the trash
C19_Witness ==
  /\ cmdpc = "done"
  /\ ~noTrash
  /\ useTrash
  /\ \E id \in Ids : trash[id].exists /\ trash[id].content.kind # "none"
  /\ \/ entry = "ui" /\ report.FilesDeleted >= 1
     \/ entry = "clean" /\ \E k \in 1 .. Len(pevents) : pevents[k].Error = Nil

\* ------------------------------------------------------------------------
\* Plugins
\* ------------------------------------------------------------------------
\* C20: a plugin's scan failure never aborts the core scan: when a registered
\* plugin's Scan returns an error, Scan still returns all directly discovered
\* targets plus the targets of every other plugin, with no error caused by
\* the failing plugin; the plugin targets are merged before the sizing pass,
\* so they are sized like the others.  (A Scan that was cancelled or that
\* lost a target before sizing fails for those reasons.)
C20_PluginFailureIsolated ==
  (/\ spc = "done"
   /\ ~cancelled
   /\ gone = {}
   /\ \E i \in 1 .. Len(plugins) : plugins[i].Err # NoErr) =>
    /\ serr = NoErr
    /\ PathsOf(Range(stargets)) \subseteq PathsOf(Range(sret))
    /\ \A i \in 1 .. Len(plugins) :
          plugins[i].Err = NoErr
            => PathsOf(Range(plugins[i].Targets)) \subseteq PathsOf(Range(sret))
    /\ \A k \in 1 .. Len(sret) :
          sret[k].Size = Calculate({}, sret[k].Path).size

\* a Scan with a failing plugin between two working ones has returned the
\* targets it found itself and those of the working plugins
C20_Witness ==
  /\ spc = "done"
  /\ ~cancelled
  /\ gone = {}
  /\ Len(plugins) >= 2
  /\ \E i \in 1 .. Len(plugins) : plugins[i].Err # NoErr
  /\ \E i \in 1 .. Len(plugins) : plugins[i].Err = NoErr
  /\ plugins[1].Err # NoErr
  /\ stargets # <<>>
  /\ Len(sret) > Len(stargets)

\* ------------------------------------------------------------------------
\* Claims about the directory walk of Scanner.Scan (SpecWalk)
\* ------------------------------------------------------------------------
\* how many path separators deeper than root the path is
DepthBelow(root, path) == Len(path) - Len(root)

\* the path is the root or lies beneath it, no deeper than n
WithinDepth(root, path, n) ==
  IsPrefix(root, path) /\ DepthBelow(root, path) <= n

UnderIgnored(path, ignorePaths) ==
  \E k \in 1 .. Len(path) : shouldIgnore(SubSeq(path, 1, k), ignorePaths)

\* C22: ignore list: no target returned by Scan is equal to, or located
\* beneath, a path that matches an entry of IgnorePaths (exactly, by prefix
\* or by glob), while the targets that are not under an ignored path are
\* all returned.
C22_IgnoredPruned ==
  (spc = "done" /\ serr = NoErr /\ ~cancelled) =>
    PathsOf(Range(sret))
      = PathsOf({t \in Range(ScanRoots([d \in DirNodes |-> -1], sroots,
                                       [sopts EXCEPT !.IgnorePaths = <<>>])) :
                   ~UnderIgnored(t.Path, sopts.IgnorePaths)})

\* ------------------------------------------------------------------------
\* Claims about SizeCalc.Calculate (SpecSize)
\* ------------------------------------------------------------------------
\* the sum of the sizes of the regular files among the paths
RECURSIVE SumRegular(_, _)
SumRegular(lfs, ps) ==
  IF ps = {} THEN 0
  ELSE LET p == CHOOSE x \in ps : TRUE
       IN  lfs[p].size + SumRegular(lfs, ps \ {p})

\* C23: the size calculator never follows symbolic links: Calculate on a
\* path that is a link returns 0 and no error; on a directory it returns the
\* sum of the sizes of the regular files that lie in the directory's own
\* tree, each counted once, a link inside contributing 0 whatever it points
\* at (a file, a directory, a directory above itself, nothing).
C23_NoSymlinkFollowed ==
  (calcRes # <<>> /\ calcPath \in DOMAIN calcFS) =>
    /\ calcRes[1].err = NoErr
    /\ calcFS[calcPath].kind = "symlink" => calcRes[1].size = 0
    /\ calcFS[calcPath].kind = "dir" =>
         calcRes[1].size
           = SumRegular(calcFS, {p \in DOMAIN calcFS :
                                   calcFS[p].kind = "file" /\ Beneath(calcPath, p)})

\* Calculate returned the sizes of f and g for /s, whose link k points at
\* the file f and whose link d/l points back at /s
C23_Witness ==
  /\ calcRes # <<>>
  /\ calcPath = <<"s">>
  /\ calcFS[<<"s", "k">>].target = <<"s", "f">>
  /\ calcFS[<<"s", "d", "l">>].target = <<"s">>
  /\ calcRes[1].size = 8

\* ------------------------------------------------------------------------
\* Claims about profiles.Loader.LoadAll (SpecLoad)
\* ------------------------------------------------------------------------
\* a definition file with everything the loader requires of a profile
WellFormed(e) ==
  /\ ~e.isDir /\ e.suffix = ".json" /\ e.parses
  /\ e.fields.Name # "" /\ e.fields.Version # ""
  /\ e.fields.Patterns # <<>> /\ e.fields.Detect # <<>>
  /\ \A p \in Range(e.fields.Patterns) : p # <<>> /\ GlobSyntaxOK(p)
  /\ \A d \in Range(e.fields.Detect) : d # <<>>

\* C24: profile loading allows partial success: LoadAll returns no error
\* whatever definitions of the directory are invalid, it returns (and keeps
\* as the loaded set) exactly the well-formed definitions in directory order,
\* and every loaded profile has a non-empty patterns list of syntactically
\* valid globs and a non-empty detect list.
C24_PartialLoad ==
  loadRes # <<>> =>
    /\ loadRes[1].err = NoErr
    /\ loadRes[1].profiles
         = [i \in 1 .. Len(SelectSeq(loadDir, WellFormed)) |->
              SelectSeq(loadDir, WellFormed)[i].fields]
    /\ lprofiles = loadRes[1].profiles
    /\ \A p \in Range(lprofiles) :
         /\ p.Patterns # <<>> /\ p.Detect # <<>>
         /\ \A g \in Range(p.Patterns) : GlobSyntaxOK(g)

\* a directory with a valid definition and one whose second pattern is not a
\* glob was loaded: one profile
C24_Witness ==
  /\ loadRes # <<>>
  /\ Len(loadDir) = 2
  /\ \E i \in 1 .. 2 : loadDir[i].id = "h"
  /\ Len(loadRes[1].profiles) = 1

\* ------------------------------------------------------------------------
\* Claims about plugins.Registry (SpecRegistry)
\* ------------------------------------------------------------------------
\* C25: plugin registry consistency: in every state reached by interleaved
\* calls, Get(name) succeeds exactly when the last successful Register or
\* Unregister of name was a Register; a Register of a registered name, of
\* nil or of an empty name returned an error and left the map as it was, and
\* so did an Unregister of a name that was not registered.
C25_RegistryConsistent ==
  registry # <<>> =>
    /\ \A n \in RegNames :
         Get(registry, n).err = NoErr <=> regLast[n] = "Register"
    /\ regLog # <<>> =>
         LET l == regLog[1]
         IN  /\ (l.op = "Register"
                   /\ (l.arg = NilPlugin \/ l.arg[1] = ""
                         \/ l.before[l.arg[1]] # NilPlugin))
                  => (l.err # NoErr /\ registry = l.before)
             /\ (l.op = "Unregister" /\ l.before[l.arg] = NilPlugin)
                  => (l.err # NoErr /\ registry = l.before)
             /\ (l.op = "Get" /\ l.err = NoErr) => l.got = l.before[l.arg]

\* both callers had begun a call when a Register of p was refused because
\* another plugin named p was registered, which stays
C25_Witness ==
  /\ regLog # <<>>
  /\ regLog[1].op = "Register" /\ regLog[1].arg = <<"p", "v2">>
  /\ regLog[1].err # NoErr
  /\ registry["p"] = <<"p", "v1">>
  /\ \E c \in RegCallers : regPend[c] # <<>>

\* ------------------------------------------------------------------------
\* Further claims about the directory walk of Scanner.Scan (SpecWalk)
\* ------------------------------------------------------------------------
\* C26: the target list returned by one Scan call contains every path at
\* most once, whatever the list of roots.
C26_NoPathTwice ==
  (spc = "done" /\ serr = NoErr) =>
    \A i, j \in 1 .. Len(sret) : i # j => sret[i].Path # sret[j].Path

\* the callback leaves d aside because of the options
Filtered(root, opts, d) ==
  \/ opts.MaxDepth > 0 /\ DepthBelow(root, d) > opts.MaxDepth
  \/ ~opts.IncludeHidden /\ isHidden(Base(d))
  \/ shouldIgnore(d, opts.IgnorePaths)

\* the profile of d's parent directory or, when the parent has none, of d
ProfileFor(d) ==
  IF MatchProfileFS(Dir(d)) # NoProfile THEN MatchProfileFS(Dir(d))
  ELSE MatchProfileFS(d)

\* d's basename is a cleanup pattern of that profile
NamedByProfile(d) ==
  ProfileFor(d) # NoProfile /\ MatchesPattern(Base(d), ProfileFor(d))

\* the directories beneath root that are named by their profile and have no
\* directory between root and themselves that is left aside or named so
ExpectedBelow(root, opts) ==
  {d \in DirNodes :
     /\ Beneath(root, d)
     /\ ~Filtered(root, opts, d) /\ NamedByProfile(d)
     /\ \A k \in Len(root) + 1 .. Len(d) - 1 :
          /\ ~Filtered(root, opts, SubSeq(d, 1, k))
          /\ ~NamedByProfile(SubSeq(d, 1, k))}

\* C27: matching of a descendant directory d during the walk of a root: d
\* is emitted exactly when the profile of its parent or, the parent having
\* none, its own profile names d's basename among its cleanup patterns
\* (the target carries that profile's name), and nothing inside an emitted
\* directory is visited or emitted.  At every point of the walk the targets
\* found below the root are such directories, each such directory is found
\* or still ahead, and no entry to visit lies inside a found one.
C27_DescendantMatching ==
  spc = "walk" =>
    LET root == sroots[sri]
        found == {t \in Range(ptargets) : t.Path # root}
    IN  /\ \A t \in found :
              /\ t.Path \in ExpectedBelow(root, sopts)
              /\ t.ProfileName = Profiles[ProfileFor(t.Path)].Name
        /\ \A d \in ExpectedBelow(root, sopts) :
              \/ \E t \in found : t.Path = d
              \/ \E i \in 1 .. Len(wstack) : IsPrefix(wstack[i], d)
        /\ \A t \in found : \A i \in 1 .. Len(wstack) :
              ~IsPrefix(t.Path, wstack[i])

\* below /w/app the walk found nm, named by the parent's profile, passed
\* over ve, which only ve's own profile names, and went into ve
C27_Witness ==
  /\ spc = "walk"
  /\ sroots[sri] = <<"w", "app">>
  /\ wstack = << <<"w", "app", "ve", "rq">> >>
  /\ {t.Path : t \in Range(ptargets)} = {<<"w", "app", "nm">>}

\* C28: scan root pointed directly at a target: when the basename of a scan
\* root is one of the cleanup patterns of a profile, Scan returns the root
\* itself as a target.
C28_RootEmitted ==
  (spc = "done" /\ serr = NoErr /\ ~cancelled) =>
    \A k \in 1 .. Len(sroots) :
      (\E p \in 1 .. Len(Profiles) :
         Profiles[p].Enabled /\ MatchesPattern(Base(sroots[k]), p))
        => \E i \in 1 .. Len(sret) : sret[i].Path = sroots[k]

\* ------------------------------------------------------------------------
\* Claims about the pre-flight check of the Cleaner (SpecClean)
\* ------------------------------------------------------------------------
\* C29: canDelete returns a classified error without any deletion: for a
\* target whose path did not exist Clean records types.ErrPathNotFound
\* ("path not found"); for a target that exists under a parent directory
\* that is not writable it records a permission-denied error and the target
\* stays on disk; neither target reaches the trash.
C29_ClassifiedPreflight ==
  \A i \in 1 .. Len(report.Errors) :
    LET e == report.Errors[i]
    IN  /\ e.Target \in cmissing => e.Error = "path not found"
        /\ (e.Target \notin cmissing /\ Dir(TargetPath[e.Target]) \in roParents)
             => /\ e.Error = "permission denied: parent directory is not writable"
                /\ Exists(disk, TargetPath[e.Target])

\* ------------------------------------------------------------------------
\* Claims about SizeCalc.CalculateTargets within Scan (SpecScan)
\* ------------------------------------------------------------------------
\* C30: cancellation of the sizing pass: CalculateTargets never returns a
\* nil error while a target was left unsized because of the cancellation:
\* when the sizing returned nil (and Scan with it), the context having been
\* cancelled while targets were being submitted or sized, every returned
\* target carries the size Calculate gives its path.
C30_SizingCancellation ==
  (spc = "done" /\ serr = NoErr /\ cancelAt \in {"submit", "wait"}) =>
    \A i \in 1 .. Len(sret) :
      sret[i].Size = Calculate(gone, sret[i].Path).size

\* ------------------------------------------------------------------------
\* Claims about SizeCalc.CalculateTargets (SpecSizing)
\* ------------------------------------------------------------------------
\* C31: CalculateTargets keeps the correspondence between input and output
\* whatever order the workers size the targets in: at every point the result
\* slice has the length of the input, element i differs from input element i
\* in its Size at most, and that Size is the input's or the size of element
\* i's own path; the slice is what is returned, and after a run that was not
\* cancelled and met no error every element carries the size of its path.
C31_SameOrderOnlySize ==
  /\ Len(results) = Len(stargets)
  /\ \A i \in 1 .. Len(results) :
       /\ [results[i] EXCEPT !.Size = stargets[i].Size] = stargets[i]
       /\ results[i].Size
            \in {stargets[i].Size, Calculate(gone, stargets[i].Path).size}
  /\ spc = "done" =>
       /\ sret = results
       /\ (serr = NoErr /\ ~cancelled) =>
            \A i \in 1 .. Len(sret) :
              sret[i].Size = Calculate(gone, stargets[i].Path).size

\* the second element has its size while the worker that received the
\* first index is still sizing
C31_Witness ==
  /\ spc \in {"submit", "wait"}
  /\ Len(stargets) >= 2
  /\ stargets[1].Path # stargets[2].Path
  /\ \E w \in SizeWorkers : sheld[w] = 1
  /\ results[1].Size = stargets[1].Size
  /\ results[2].Size = Calculate(gone, stargets[2].Path).size
  /\ results[2].Size # stargets[2].Size

\* ------------------------------------------------------------------------
\* Claims about the cancellation of Cleaner.Clean (SpecCleanSteps)
\* ------------------------------------------------------------------------
\* C32: once the context is cancelled and the loop is between two targets,
\* no step touches the disk, the trash or the report or begins a target; a
\* target that is past the context check is carried to completion with the
\* outcome it would have had without the cancellation, and Clean does not
\* return before; when Clean returns the cancellation error, the report is
\* the one of the targets processed so far, which are fewer than the
\* targets, so FilesDeleted is smaller than their number.
C32_CancelBetweenTargets ==
  [][/\ (cpc = "loop" /\ cancelled /\ ~cbegun) =>
          /\ disk' = disk /\ trash' = trash /\ report' = report
          /\ cidx' = cidx /\ ~cbegun'
     /\ (cpc = "loop" /\ cbegun) =>
          /\ cpc' = "loop"
          /\ \/ cbegun' /\ cidx' = cidx /\ report' = report /\ disk' = disk
             \/ /\ ~cbegun' /\ cidx' = cidx + 1
                /\ \E f \in FaultKinds :
                     LET r == CleanTarget(disk, trash, roParents, report,
                                          ctargets[cidx], useTrash, now, f)
                     IN  /\ disk' = r.disk /\ trash' = r.trash
                         /\ report' = r.report
     /\ (cpc' = "done" /\ cerr' = "context canceled") =>
          /\ cancelled'
          /\ report' = report
          /\ report'.FilesDeleted + Len(report'.Errors) = cidx' - 1
          /\ cidx' <= Len(ctargets)
          /\ report'.FilesDeleted < Len(ctargets)
    ]_vars

\* Clean of three targets returned the cancellation error with the first
\* target in the trash and counted and the other two where they were
C32_Witness ==
  /\ cpc = "done" /\ cerr = "context canceled"
  /\ Len(ctargets) = 3 /\ useTrash
  /\ report.FilesDeleted = 1 /\ Len(report.TrashedItems) = 1
  /\ ~Exists(disk, TargetPath[ctargets[1]])
  /\ Exists(disk, TargetPath[ctargets[2]])
  /\ Exists(disk, TargetPath[ctargets[3]])

\* ------------------------------------------------------------------------
\* Claims about the cancellation of Cleaner.CleanAsync (SpecCleanAsync)
\* ------------------------------------------------------------------------
\* the progress events sent so far, wherever they are
EventsSoFar == pevents \o pchan \o qresults

\* the target of every event that carries the cancellation error is as it
\* was when CleanAsync was called, nothing in the trash comes from it and no
\* worker is working on it
CancelledUntouched ==
  \A k \in 1 .. Len(EventsSoFar) :
    LET e == EventsSoFar[k]
        t == e.Target
    IN  e.Error = "context canceled" =>
          /\ disk[TargetPath[t]]
               = (IF t \in cmissing THEN NoEntry ELSE Content(t))
          /\ \A id \in Ids :
               /\ trash[id].meta.OriginalPath # TargetPath[t]
               /\ trash[id].content.owner # t
          /\ \A w \in CleanWorkers : qwork[w] # e.Current

\* C33: at every step of a CleanAsync run, the targets whose event carries
\* the cancellation error are untouched, and a job a worker holds (it passed
\* the context check) stays with the worker until it is finished and
\* reported with the outcome of the permission check and the move or
\* removal, whether or not the context is cancelled meanwhile.
C33_CancelledJobsUntouched ==
  [][/\ CancelledUntouched'
     /\ \A w \in CleanWorkers :
          qwork[w] # 0 =>
            \/ qwork'[w] = qwork[w]
            \/ /\ qwork'[w] = 0
               /\ \E f \in JobFaults(disk, roParents, ctargets[qwork[w]],
                                     useTrash) :
                    LET i == qwork[w]
                        r == CleanJob(disk, trash, roParents, ctargets[i],
                                      useTrash, now, f)
                    IN  /\ disk' = r.disk
                        /\ trash' = r.trash
                        /\ qresults'
                             = Append(qresults, Progress(i, Len(ctargets),
                                                         ctargets[i], r.err))
    ]_vars

\* the consumer received the cancellation of the second job and after it
\* the success of the first, whose target is gone from its path, while the
\* second target is where it was
C33_Witness ==
  /\ Len(pevents) >= 2
  /\ pevents[1].Current = 2 /\ pevents[1].Error = "context canceled"
  /\ pevents[2].Current = 1 /\ pevents[2].Error = Nil
  /\ ~Exists(disk, TargetPath[ctargets[1]])
  /\ Exists(disk, TargetPath[ctargets[2]])

\* ------------------------------------------------------------------------
\* Claims about cancellation during a walk (SpecScan)
\* ------------------------------------------------------------------------
\* C34: the targets of a cancelled root are discarded: a step taken while
\* the walk of a root is under way and the context is cancelled adds nothing
\* to the targets Scan has gathered, the targets of the roots walked before
\* are never taken out of them, and every one of them is in the list Scan
\* returns.
C34_CancelledRootDiscarded ==
  [][/\ (spc = "walk" /\ cancelled) => stargets' = stargets
     /\ Len(stargets') >= Len(stargets)
     /\ SubSeq(stargets', 1, Len(stargets)) = stargets
     /\ spc' = "done" =>
          \A i \in 1 .. Len(stargets') :
            \E j \in 1 .. Len(sret') : sret'[j].Path = stargets'[i].Path
    ]_vars

\* ------------------------------------------------------------------------
\* Claims about the cancellation of Scanner.ScanAsync (SpecAsyncCancel)
\* ------------------------------------------------------------------------
\* C35: ScanAsync never sends on a closed channel: in no interleaving of
\* the submission loop, the workers and a cancellation does a worker send
\* on the target channel or the error channel after the coordinating
\* goroutine closed it.
C35_NoSendOnClosed ==
  \A w \in ScanWorkers : apc[w] # "panic"

\* C36: ScanAsync always winds down: with a consumer that keeps receiving,
\* with or without cancellation, both channels are eventually closed and
\* every worker has eventually returned.
C36_WindsDown ==
  <>(tclosed /\ eclosed /\ \A w \in ScanWorkers : apc[w] = "exit")

\* ------------------------------------------------------------------------
\* Claims about the report of Cleaner.Clean (SpecCleanSteps)
\* ------------------------------------------------------------------------
\* how often t occurs in ts
Occurrences(ts, t) == Cardinality({i \in 1 .. Len(ts) : ts[i] = t})

\* the targets of the entries of report.Errors
ErrorTargets == [k \in 1 .. Len(report.Errors) |-> report.Errors[k].Target]

\* the report accounts for the targets the loop has been through
ReportAccounts ==
  LET processed == SubSeq(ctargets, 1, cidx - 1)
  IN  /\ report.FilesDeleted + Len(report.Errors) = Len(processed)
      /\ (cpc = "done" /\ cerr = Nil) =>
           report.FilesDeleted + Len(report.Errors) = Len(ctargets)
      /\ \A t \in TargetIds :
           Occurrences(ErrorTargets, t) <= Occurrences(processed, t)
      /\ report.TotalSize = SumSizes(processed) - SumSizes(ErrorTargets)
      /\ useTrash => Len(report.TrashedItems) = report.FilesDeleted
      /\ ~useTrash => report.TrashedItems = <<>>

\* C37: accounting of the CleanReport: at every point of a Clean run
\* FilesDeleted + len(Errors) is the number of targets processed so far, and
\* len(targets) on a nil return; TotalSize is the sum of the Size of the
\* processed targets that are not in Errors; each processed target either
\* raises FilesDeleted and TotalSize or adds one entry to Errors, never
\* both; TrashedItems has FilesDeleted entries with UseTrash and none
\* without.
C37_ReportAccounting ==
  [][/\ ReportAccounts'
     /\ cidx' # cidx =>
          /\ cidx' = cidx + 1
          /\ \/ /\ report'.FilesDeleted = report.FilesDeleted + 1
                /\ report'.TotalSize
                     = report.TotalSize + TargetSize[ctargets[cidx]]
                /\ report'.Errors = report.Errors
             \/ /\ report'.FilesDeleted = report.FilesDeleted
                /\ report'.TotalSize = report.TotalSize
                /\ Len(report'.Errors) = Len(report.Errors) + 1
                /\ report'.Errors[Len(report'.Errors)].Target = ctargets[cidx]
                /\ report'.TrashedItems = report.TrashedItems
     /\ cidx' = cidx => report' = report
    ]_vars

\* Clean returned nil for three targets of which the second is in Errors
\* and the other two are counted, with their sizes and two trash ids
C37_Witness ==
  /\ cpc = "done" /\ cerr = Nil /\ useTrash
  /\ Len(ctargets) = 3
  /\ ErrorTargets = <<ctargets[2]>>
  /\ report.FilesDeleted = 2
  /\ report.TotalSize = TargetSize[ctargets[1]] + TargetSize[ctargets[3]]
  /\ report.TotalSize # SumSizes(ctargets)
  /\ Len(report.TrashedItems) = 2

\* ------------------------------------------------------------------------
\* Claims about the interactive program (SpecTui)
\* ------------------------------------------------------------------------
\* C38: the TUI never starts deletion without an explicit confirmation of a
\* non-empty selection: the Cleaning screen is entered only from the
\* Confirmation screen on y or enter, and Cleaner.Clean is called only
\* then; the Confirmation screen is entered only from the Selection screen
\* on enter with at least one of the scanned targets selected; n or q on
\* the Confirmation screen leads back to Selection and starts no clean.
C38_ConfirmedSelectionOnly ==
  [][/\ (tscreen' = "Cleaning" /\ tscreen # "Cleaning") =>
          (tscreen = "Confirmation" /\ tlast' \in {"y", "enter"})
     /\ tcleaned' # tcleaned => tscreen = "Cleaning"
     /\ (tscreen' = "Confirmation" /\ tscreen # "Confirmation") =>
          /\ tscreen = "Selection" /\ tlast' = "enter"
          /\ selectedTargets(tn, tselected) # {}
     /\ (tscreen = "Confirmation" /\ tlast' \in {"n", "q"}) =>
          (tscreen' = "Selection" /\ trun' = trun /\ tcleaned' = tcleaned)
    ]_vars

====
